---------------------------- MODULE Spec2Model ----------------------------
(* Model of the ADF <-> Markdown converter of internal/bridge/jira (adf.go)   *)
(* and of the push engine that consumes it.  Strings are sequences of         *)
(* one-character strings; regular expressions are interpreted by a small      *)
(* leftmost-first, greedy matcher (ReMatch/ReFind) that follows Go's regexp.  *)
EXTENDS Integers, Sequences, FiniteSets, TLC

(***************************************************************************)
(* Characters and character classes                                        *)
(***************************************************************************)
NL == "\n"
\* the backquote character (a TLA+ string literal cannot hold one)
BQ == "^"
DQ == "\""

Lower == {"a", "b", "c", "d", "e", "f", "g", "h", "i", "j", "k", "l", "m", "n", "o", "p", "q",
          "r", "s", "t", "u", "v", "w", "x", "y", "z"}
Upper == {"A", "B", "C", "D", "E", "F", "G", "H", "I", "J", "K", "L", "M", "N", "O", "P", "Q",
          "R", "S", "T", "U", "V", "W", "X", "Y", "Z"}
Digit == {"0", "1", "2", "3", "4", "5", "6", "7", "8", "9"}
Punct == {" ", NL, "*", "_", "~", BQ, "[", "]", "(", ")", "!", "<", ">", "/", "=", DQ,
          "-", "+", ".", ":", "|", "#", "@", ","}
Chars == Lower \cup Upper \cup Digit \cup Punct

\* regexp syntax classes (RE2): \s, \w, \d, ., [^c]
ClsSpace == {" ", NL}
ClsWord  == Lower \cup Upper \cup Digit \cup {"_"}
ClsDigit == Digit
ClsDot   == Chars \ {NL}
ClsNot(cs) == Chars \ cs

(***************************************************************************)
(* package strings                                                         *)
(***************************************************************************)
Min(a, b) == IF a < b THEN a ELSE b
Max(a, b) == IF a > b THEN a ELSE b

\* s[from..to-1] in Go half-open slicing, with 1-based positions
Slice(s, from, to) == IF to <= from THEN <<>> ELSE SubSeq(s, from, to - 1)

HasPrefixAt(s, p, lit) ==
    /\ p + Len(lit) - 1 <= Len(s)
    /\ \A k \in 1..Len(lit) : s[p + k - 1] = lit[k]

HasPrefix(s, lit) == HasPrefixAt(s, 1, lit)
HasSuffix(s, lit) == Len(lit) <= Len(s) /\ HasPrefixAt(s, Len(s) - Len(lit) + 1, lit)
TrimPrefix(s, lit) == IF HasPrefix(s, lit) THEN Slice(s, Len(lit) + 1, Len(s) + 1) ELSE s
TrimSuffix(s, lit) == IF HasSuffix(s, lit) THEN Slice(s, 1, Len(s) - Len(lit) + 1) ELSE s
Contains(s, lit) == \E p \in 1..(Len(s) + 1) : HasPrefixAt(s, p, lit)

\* strings.Trim(s, cutset), strings.TrimSpace(s)
TrimSet(s, cut) ==
    LET keep == {k \in 1..Len(s) : s[k] \notin cut}
    IN  IF keep = {} THEN <<>>
        ELSE LET lo == CHOOSE k \in keep : \A m \in keep : k <= m
                 hi == CHOOSE k \in keep : \A m \in keep : k >= m
             IN  SubSeq(s, lo, hi)
TrimSpace(s) == TrimSet(s, ClsSpace)

RECURSIVE Repeat(_, _)
Repeat(s, n) == IF n <= 0 THEN <<>> ELSE s \o Repeat(s, n - 1)

\* strings.Split(s, sep) for a non-empty separator
\* the first position >= from where lit occurs, 0 when there is none
IndexFrom(s, lit, from) ==
    IF \E p \in from..Len(s) : HasPrefixAt(s, p, lit)
    THEN CHOOSE p \in from..Len(s) :
             HasPrefixAt(s, p, lit) /\ \A q \in from..(p - 1) : ~HasPrefixAt(s, q, lit)
    ELSE 0

RECURSIVE SplitFrom(_, _, _)
SplitCut(s, sep, from, p) ==
    IF p = 0 THEN << Slice(s, from, Len(s) + 1) >>
    ELSE << Slice(s, from, p) >> \o SplitFrom(s, sep, p + Len(sep))
SplitFrom(s, sep, from) == SplitCut(s, sep, from, IndexFrom(s, sep, from))
Split(s, sep) == SplitFrom(s, sep, 1)

RECURSIVE Join(_, _)
Join(ss, sep) ==
    IF ss = <<>> THEN <<>>
    ELSE IF Len(ss) = 1 THEN ss[1]
    ELSE ss[1] \o sep \o Join(Tail(ss), sep)

RECURSIVE Concat(_)
Concat(ss) == IF ss = <<>> THEN <<>> ELSE ss[1] \o Concat(Tail(ss))

ReplaceChar(s, old, new) == [k \in 1..Len(s) |-> IF s[k] = old THEN new ELSE s[k]]

\* fmt.Sprintf("%d", n) for the small positive numbers of list numbering
Itoa(n) == IF n < 10 THEN << <<"0","1","2","3","4","5","6","7","8","9">>[n + 1] >>
           ELSE << <<"0","1","2","3","4","5","6","7","8","9">>[(n \div 10) + 1],
                   <<"0","1","2","3","4","5","6","7","8","9">>[(n % 10) + 1] >>

(***************************************************************************)
(* package regexp: patterns are sequences of elements                      *)
(*   lit  a literal string                                                 *)
(*   rep  min..max repetitions (max < 0: unbounded) of a class, greedy,    *)
(*        recorded as capture group cap when cap > 0                       *)
(*   wb   \b        end  $                                                 *)
(***************************************************************************)
Lit(str) == [k |-> "lit", s |-> str, cls |-> {}, min |-> 0, max |-> 0, cap |-> 0]
Rep(cls, min, max, cap) == [k |-> "rep", s |-> <<>>, cls |-> cls, min |-> min, max |-> max, cap |-> cap]
Plus(cls, cap) == Rep(cls, 1, -1, cap)
Star(cls, cap) == Rep(cls, 0, -1, cap)
WordB == [k |-> "wb", s |-> <<>>, cls |-> {}, min |-> 0, max |-> 0, cap |-> 0]
EndT == [k |-> "end", s |-> <<>>, cls |-> {}, min |-> 0, max |-> 0, cap |-> 0]

NoCaps == << <<0, 0>>, <<0, 0>>, <<0, 0>> >>
ReFail == [ok |-> FALSE, from |-> 0, to |-> 0, caps |-> NoCaps]

\* the length of the run of characters of cls that starts at p
RunLen(s, p, cls) ==
    IF \E q \in p..Len(s) : s[q] \notin cls
    THEN (CHOOSE q \in p..Len(s) : s[q] \notin cls /\ \A r \in p..(q - 1) : s[r] \in cls) - p
    ELSE Max(0, Len(s) + 1 - p)

IsWordAt(s, p) == p >= 1 /\ p <= Len(s) /\ s[p] \in ClsWord

\* the match of pattern elements j.. at position p that leftmost-first
\* (backtracking, greedy) matching prefers
RECURSIVE ReMatch(_, _, _, _)

\* a repetition that takes n characters, rest being the match of what follows
RepPick(pat, j, p, n, rest) ==
    IF pat[j].cap = 0 THEN rest
    ELSE [rest EXCEPT !.caps[pat[j].cap] = <<p, p + n>>]

\* the repetition lengths up to most that let the rest match
RepFits(pat, j, s, p, most) ==
    {n \in pat[j].min..most : ReMatch(pat, j + 1, s, p + n).ok}

RepLongest(pat, j, s, p, n) == RepPick(pat, j, p, n, ReMatch(pat, j + 1, s, p + n))

\* greedy: the longest repetition that lets the rest match
RepBest(pat, j, s, p, fits) ==
    IF fits = {} THEN ReFail
    ELSE RepLongest(pat, j, s, p, CHOOSE n \in fits : \A m \in fits : n >= m)

RepTry(pat, j, s, p, most) == RepBest(pat, j, s, p, RepFits(pat, j, s, p, most))

RepMost(el, run) == IF el.max < 0 THEN run ELSE Min(run, el.max)

ReMatch(pat, j, s, p) ==
    IF j > Len(pat) THEN [ok |-> TRUE, from |-> p, to |-> p, caps |-> NoCaps]
    ELSE CASE pat[j].k = "lit" ->
                IF HasPrefixAt(s, p, pat[j].s)
                THEN ReMatch(pat, j + 1, s, p + Len(pat[j].s)) ELSE ReFail
           [] pat[j].k = "wb" ->
                IF IsWordAt(s, p - 1) # IsWordAt(s, p)
                THEN ReMatch(pat, j + 1, s, p) ELSE ReFail
           [] pat[j].k = "end" ->
                IF p = Len(s) + 1 THEN ReMatch(pat, j + 1, s, p) ELSE ReFail
           [] OTHER ->
                RepTry(pat, j, s, p, RepMost(pat[j], RunLen(s, p, pat[j].cls)))

\* FindStringSubmatchIndex: the leftmost match (anchored patterns start at 1)
ReStarts(re, s) == IF re.anch THEN {1} ELSE 1..(Len(s) + 1)
ReHits(re, s) == {p \in ReStarts(re, s) : ReMatch(re.pat, 1, s, p).ok}
ReFindAt(re, s, p) == [ReMatch(re.pat, 1, s, p) EXCEPT !.from = p]
ReLeftmost(re, s, hits) ==
    IF hits = {} THEN ReFail
    ELSE ReFindAt(re, s, CHOOSE p \in hits : \A q \in hits : p <= q)
ReFind(re, s) == ReLeftmost(re, s, ReHits(re, s))

MatchString(re, s) == ReFind(re, s).ok
Group(s, m, g) == Slice(s, m.caps[g][1], m.caps[g][2])
Re(pat) == [anch |-> FALSE, pat |-> pat]
ReA(pat) == [anch |-> TRUE, pat |-> pat]

(***************************************************************************)
(* adf.go: precompiled regular expressions                                 *)
(***************************************************************************)
SpanClose == <<"<", "/", "s", "p", "a", "n", ">">>

reImage == Re(<< Lit(<<"!", "[">>), Star(ClsNot({"]"}), 1), Lit(<<"]", "(">>),
                 Plus(ClsNot({")"}), 2), Lit(<<")">>) >>)
reLink == Re(<< Lit(<<"[">>), Plus(ClsNot({"]"}), 1), Lit(<<"]", "(">>),
                Plus(ClsNot({")"}), 2), Lit(<<")">>) >>)
reInlineCode == Re(<< Lit(<<BQ>>), Plus(ClsNot({BQ}), 1), Lit(<<BQ>>) >>)
reStatus == Re(<< Lit(<<"<", "s", "p", "a", "n", " ", "d", "a", "t", "a", "-", "s", "t", "a", "t", "u", "s", "=", DQ>>),
                  Plus(ClsNot({DQ}), 1), Lit(<<DQ, ">">>), Plus(ClsNot({"<"}), 2), Lit(SpanClose) >>)
reTextColor == Re(<< Lit(<<"<", "s", "p", "a", "n", " ", "s", "t", "y", "l", "e", "=", DQ, "c", "o", "l", "o", "r", ":">>),
                     Star(ClsSpace, 0), Plus(ClsNot({DQ}), 1), Lit(<<DQ, ">">>),
                     Plus(ClsNot({"<"}), 2), Lit(SpanClose) >>)
reBorder == Re(<< Lit(<<"<", "s", "p", "a", "n", " ", "s", "t", "y", "l", "e", "=", DQ, "b", "o", "r", "d", "e", "r", ":">>),
                  Star(ClsSpace, 0), Lit(<<"1", "p", "x", " ", "s", "o", "l", "i", "d">>),
                  Star(ClsSpace, 0), Plus(ClsNot({DQ}), 1), Lit(<<DQ, ">">>),
                  Plus(ClsNot({"<"}), 2), Lit(SpanClose) >>)
reSubscript == Re(<< Lit(<<"<", "s", "u", "b", ">">>), Plus(ClsNot({"<"}), 1),
                     Lit(<<"<", "/", "s", "u", "b", ">">>) >>)
reSuperscript == Re(<< Lit(<<"<", "s", "u", "p", ">">>), Plus(ClsNot({"<"}), 1),
                       Lit(<<"<", "/", "s", "u", "p", ">">>) >>)
reUnderline == Re(<< Lit(<<"<", "u", ">">>), Plus(ClsNot({"<"}), 1), Lit(<<"<", "/", "u", ">">>) >>)
reMention == Re(<< Lit(<<"@">>), Plus(ClsWord \cup {".", "-"}, 1), WordB >>)
reEmoji == Re(<< Lit(<<":">>), Plus(Lower \cup Digit \cup {"_", "+", "-"}, 1), Lit(<<":">>) >>)
reBold1 == Re(<< Lit(<<"*", "*">>), Plus(ClsNot({"*"}), 1), Lit(<<"*", "*">>) >>)
reBold2 == Re(<< Lit(<<"_", "_">>), Plus(ClsNot({"_"}), 1), Lit(<<"_", "_">>) >>)
reItalic1 == Re(<< Lit(<<"*">>), Plus(ClsNot({"*"}), 1), Lit(<<"*">>) >>)
reItalic2 == Re(<< Lit(<<"_">>), Plus(ClsNot({"_"}), 1), Lit(<<"_">>) >>)
reStrike == Re(<< Lit(<<"~", "~">>), Plus(ClsNot({"~"}), 1), Lit(<<"~", "~">>) >>)

reHeading == ReA(<< Rep({"#"}, 1, 6, 1), Plus(ClsSpace, 0), Plus(ClsDot, 2), EndT >>)
\* ^(-{3,}|\*{3,}|_{3,})$ : one anchored pattern per alternative
reHorizontalRule == << ReA(<< Rep({"-"}, 3, -1, 1), EndT >>),
                       ReA(<< Rep({"*"}, 3, -1, 1), EndT >>),
                       ReA(<< Rep({"_"}, 3, -1, 1), EndT >>) >>
reOrderedListItem == ReA(<< Star(ClsSpace, 1), Plus(ClsDigit, 0), Lit(<<".">>),
                            Plus(ClsSpace, 0), Plus(ClsDot, 2), EndT >>)
reUnorderedListItem == ReA(<< Star(ClsSpace, 1), Rep({"-", "*", "+"}, 1, 1, 0),
                              Plus(ClsSpace, 0), Plus(ClsDot, 2), EndT >>)
reTaskListItem == ReA(<< Star(ClsSpace, 1), Lit(<<"-">>), Plus(ClsSpace, 0), Lit(<<"[">>),
                         Rep({" ", "x", "X"}, 1, 1, 2), Lit(<<"]">>), Plus(ClsSpace, 0),
                         Plus(ClsDot, 3), EndT >>)
reOrderedListStart == ReA(<< Star(ClsSpace, 0), Plus(ClsDigit, 0), Lit(<<".">>), Plus(ClsSpace, 0) >>)
reUnorderedListStart == ReA(<< Star(ClsSpace, 0), Rep({"-", "*", "+"}, 1, 1, 0), Plus(ClsSpace, 0) >>)
\* ^(#{1,6}\s|[-*+]\s|\d+\.\s|```|>) : one anchored pattern per alternative
reBlockElement == << ReA(<< Rep({"#"}, 1, 6, 0), Rep(ClsSpace, 1, 1, 0) >>),
                     ReA(<< Rep({"-", "*", "+"}, 1, 1, 0), Rep(ClsSpace, 1, 1, 0) >>),
                     ReA(<< Plus(ClsDigit, 0), Lit(<<".">>), Rep(ClsSpace, 1, 1, 0) >>),
                     ReA(<< Lit(<<BQ, BQ, BQ>>) >>),
                     ReA(<< Lit(<<">">>) >>) >>
reTableSeparator == ReA(<< Plus(ClsSpace \cup {"-", ":"}, 0), EndT >>)
rePanelDiv == Re(<< Lit(<<"<", "d", "i", "v", " ", "d", "a", "t", "a", "-", "p", "a", "n", "e", "l", "=", DQ>>),
                    Plus(ClsNot({DQ}), 1), Lit(<<DQ, ">">>) >>)
reSummaryTag == Re(<< Lit(<<"<", "s", "u", "m", "m", "a", "r", "y", ">">>), Plus(ClsNot({"<"}), 1),
                      Lit(<<"<", "/", "s", "u", "m", "m", "a", "r", "y", ">">>) >>)

MatchAny(res, s) == \E k \in 1..Len(res) : MatchString(res[k], s)

(***************************************************************************)
(* ADFNode, ADFMark: attribute values are tagged JSON values               *)
(***************************************************************************)
\* encoding/json values: null, string, number (n, plus a fractional part when
\* frac), array, object
JNull == [j |-> "null", s |-> <<>>, n |-> 0, frac |-> FALSE, items |-> <<>>, kv |-> <<>>]
JStr(s) == [j |-> "str", s |-> s, n |-> 0, frac |-> FALSE, items |-> <<>>, kv |-> <<>>]
JNum(n) == [j |-> "num", s |-> <<>>, n |-> n, frac |-> FALSE, items |-> <<>>, kv |-> <<>>]
JFrac(n) == [j |-> "num", s |-> <<>>, n |-> n, frac |-> TRUE, items |-> <<>>, kv |-> <<>>]
JArr(items) == [j |-> "arr", s |-> <<>>, n |-> 0, frac |-> FALSE, items |-> items, kv |-> <<>>]
JObj(kv) == [j |-> "obj", s |-> <<>>, n |-> 0, frac |-> FALSE, items |-> <<>>, kv |-> kv]

StrV(s) == JStr(s)
NumV(n) == JNum(n)
NilAttrs == [nil |-> TRUE, kv |-> <<>>]
Attrs(f) == [nil |-> FALSE, kv |-> f]
\* v, ok := attrs[key].(string) and v, ok := attrs[key].(float64)
HasStr(attrs, key) == ~attrs.nil /\ key \in DOMAIN attrs.kv /\ attrs.kv[key].j = "str"
HasNum(attrs, key) == ~attrs.nil /\ key \in DOMAIN attrs.kv /\ attrs.kv[key].j = "num"

ADFMark(type, attrs) == [type |-> type, attrs |-> attrs]
ADFNode(type, attrs, content) ==
    [type |-> type, content |-> content, text |-> <<>>, marks |-> <<>>, attrs |-> attrs]
TextNode(text, marks) ==
    [type |-> "text", content |-> <<>>, text |-> text, marks |-> marks, attrs |-> NilAttrs]
EmptyNode == [type |-> "", content |-> <<>>, text |-> <<>>, marks |-> <<>>, attrs |-> NilAttrs]

(***************************************************************************)
(* parseInlineContent                                                      *)
(***************************************************************************)
AttachmentScheme == <<"a", "t", "t", "a", "c", "h", "m", "e", "n", "t", ":">>

patterns == <<
    [regex |-> reImage,       type_ |-> "image",     mark |-> ""],
    [regex |-> reLink,        type_ |-> "link",      mark |-> ""],
    [regex |-> reInlineCode,  type_ |-> "code",      mark |-> "code"],
    [regex |-> reStatus,      type_ |-> "status",    mark |-> ""],
    [regex |-> reTextColor,   type_ |-> "textColor", mark |-> ""],
    [regex |-> reBorder,      type_ |-> "border",    mark |-> ""],
    [regex |-> reSubscript,   type_ |-> "subsup",    mark |-> "sub"],
    [regex |-> reSuperscript, type_ |-> "subsup",    mark |-> "sup"],
    [regex |-> reUnderline,   type_ |-> "underline", mark |-> "underline"],
    [regex |-> reMention,     type_ |-> "mention",   mark |-> ""],
    [regex |-> reEmoji,       type_ |-> "emoji",     mark |-> ""],
    [regex |-> reBold1,       type_ |-> "strong",    mark |-> "strong"],
    [regex |-> reBold2,       type_ |-> "strong",    mark |-> "strong"],
    [regex |-> reItalic1,     type_ |-> "em",        mark |-> "em"],
    [regex |-> reItalic2,     type_ |-> "em",        mark |-> "em"],
    [regex |-> reStrike,      type_ |-> "strike",    mark |-> "strike"] >>

\* adf.go 1101-1123: the pattern whose match starts earliest, the first listed
\* one on a tie; e is that pattern (0: none matches) and m its match
Matches(pats, remaining) == [k \in DOMAIN pats |-> ReFind(pats[k].regex, remaining)]
EarliestAt(ms, k) == [e |-> k, m |-> ms[k]]
\* the first listed pattern that matches, wherever its match starts
EarliestOfFirstListed(ms, hits) ==
    IF hits = {} THEN [e |-> 0, m |-> ReFail]
    ELSE EarliestAt(ms, CHOOSE k \in hits : \A j \in hits : k <= j)
EarliestOf(ms, hits) ==
    IF hits = {} THEN [e |-> 0, m |-> ReFail]
    ELSE EarliestAt(ms, CHOOSE k \in hits : \A j \in hits :
                            \/ ms[k].from < ms[j].from
                            \/ ms[k].from = ms[j].from /\ k <= j)
EarliestHits(ms) == EarliestOf(ms, {k \in DOMAIN ms : ms[k].ok})
EarliestPattern(pats, remaining) == EarliestHits(Matches(pats, remaining))

\* the node built for a match m of pattern pt in remaining (adf.go 1146-1270)
InlineNode(pt, remaining, m) ==
    LET g1 == Group(remaining, m, 1)
        g2 == Group(remaining, m, 2)
    IN  CASE pt.type_ = "image" ->
               IF HasPrefix(g2, AttachmentScheme)
               THEN ADFNode("media", Attrs([id |-> StrV(TrimPrefix(g2, AttachmentScheme)),
                                            type |-> StrV(<<"f", "i", "l", "e">>),
                                            alt |-> StrV(g1)]), <<>>)
               ELSE ADFNode("media", Attrs([url |-> StrV(g2),
                                            type |-> StrV(<<"e", "x", "t", "e", "r", "n", "a", "l">>),
                                            alt |-> StrV(g1)]), <<>>)
          [] pt.type_ = "link" ->
               TextNode(g1, << ADFMark("link", Attrs([href |-> StrV(g2)])) >>)
          [] pt.type_ = "status" ->
               ADFNode("status", Attrs([text |-> StrV(g2), color |-> StrV(g1)]), <<>>)
          [] pt.type_ = "mention" ->
               ADFNode("mention", Attrs([text |-> StrV(g1), id |-> StrV(g1)]), <<>>)
          [] pt.type_ = "emoji" ->
               ADFNode("emoji", Attrs([shortName |-> StrV(<<":">> \o g1 \o <<":">>),
                                       text |-> StrV(<<":">> \o g1 \o <<":">>)]), <<>>)
          [] pt.type_ = "textColor" ->
               TextNode(g2, << ADFMark("textColor", Attrs([color |-> StrV(g1)])) >>)
          [] pt.type_ = "border" ->
               TextNode(g2, << ADFMark("border", Attrs([color |-> StrV(g1)])) >>)
          [] pt.type_ = "subsup" ->
               TextNode(g1, << ADFMark("subsup", Attrs([type |-> StrV(IF pt.mark = "sub"
                                    THEN <<"s", "u", "b">> ELSE <<"s", "u", "p">>)])) >>)
          [] OTHER ->
               TextNode(g1, << ADFMark(pt.mark, NilAttrs) >>)

RECURSIVE InlineLoop(_, _)
\* adf.go 1125-1275: the text before the earliest match, the node of the match,
\* and the loop again on what follows it
InlineStep(pats, remaining, earliest) ==
    IF earliest.e = 0 THEN << TextNode(remaining, <<>>) >>
    ELSE (IF earliest.m.from > 1
          THEN << TextNode(Slice(remaining, 1, earliest.m.from), <<>>) >> ELSE <<>>)
         \o << InlineNode(pats[earliest.e], remaining, earliest.m) >>
         \o InlineLoop(pats, Slice(remaining, earliest.m.to, Len(remaining) + 1))
InlineLoop(pats, remaining) ==
    IF remaining = <<>> THEN <<>>
    ELSE InlineStep(pats, remaining, EarliestPattern(pats, remaining))

parseInlineContent(text) == InlineLoop(patterns, text)

(***************************************************************************)
(* Block-level sub-parsers: each returns the node and the lines consumed   *)
(***************************************************************************)
Fence == <<BQ, BQ, BQ>>
QuotePrefix == <<">", " ">>
PanelPrefix == <<"<", "d", "i", "v", " ", "d", "a", "t", "a", "-", "p", "a", "n", "e", "l", "=">>
PanelClose == <<"<", "/", "d", "i", "v", ">">>
DetailsPrefix == <<"<", "d", "e", "t", "a", "i", "l", "s">>
DetailsClose == <<"<", "/", "d", "e", "t", "a", "i", "l", "s", ">">>
SummaryOpen == <<"<", "s", "u", "m", "m", "a", "r", "y", ">">>

Parsed(node, consumed) == [node |-> node, consumed |-> consumed, hung |-> FALSE]
Paragraph(text) == ADFNode("paragraph", NilAttrs, parseInlineContent(text))

getIndent(line) == RunLen(line, 1, {" "})

\* the first index >= i of a line with the given prefix, Len(lines) + 1 if none
RECURSIVE FirstWithPrefix(_, _, _)
FirstWithPrefix(lines, i, prefix) ==
    IF i > Len(lines) \/ HasPrefix(lines[i], prefix) THEN i
    ELSE FirstWithPrefix(lines, i + 1, prefix)

\* the builder idiom: if content.Len() > 0 { WriteString("\n") }; WriteString(x)
RECURSIVE WriteLines(_, _)
WriteLines(acc, ss) ==
    IF ss = <<>> THEN acc
    ELSE WriteLines((IF Len(acc) > 0 THEN acc \o <<NL>> ELSE acc) \o ss[1], Tail(ss))

\* the code block with the closing fence counted whether it is there or not
CodeBlockCountingFence(lines, start, language, i) ==
    Parsed([type |-> "codeBlock",
            content |-> << TextNode(Join(SubSeq(lines, start + 1, i - 1), <<NL>>), <<>>) >>,
            text |-> <<>>, marks |-> <<>>,
            attrs |-> IF language # <<>> THEN Attrs([language |-> StrV(language)])
                      ELSE NilAttrs],
           i - start + 1)

\* adf.go 805-843: i is the closing fence, Len(lines) + 1 when there is none
CodeBlock(lines, start, language, i) ==
    Parsed([type |-> "codeBlock",
            content |-> << TextNode(Join(SubSeq(lines, start + 1, i - 1), <<NL>>), <<>>) >>,
            text |-> <<>>, marks |-> <<>>,
            attrs |-> IF language # <<>> THEN Attrs([language |-> StrV(language)])
                      ELSE NilAttrs],
           IF i <= Len(lines) THEN i - start + 1 ELSE i - start)

parseCodeBlock(lines, start) ==
    CodeBlock(lines, start, TrimSpace(TrimPrefix(lines[start], Fence)),
              FirstWithPrefix(lines, start + 1, Fence))

RECURSIVE QuoteEnd(_, _)
QuoteEnd(lines, i) ==
    IF i <= Len(lines) /\ HasPrefix(lines[i], QuotePrefix) THEN QuoteEnd(lines, i + 1) ELSE i

\* adf.go 846-867: i is the first line that is not quoted
Blockquote(lines, start, i) ==
    Parsed(ADFNode("blockquote", NilAttrs,
                   << Paragraph(WriteLines(<<>>, [k \in 1..(i - start) |->
                                  TrimPrefix(lines[start + k - 1], QuotePrefix)])) >>),
           i - start)

parseBlockquote(lines, start) == Blockquote(lines, start, QuoteEnd(lines, start))

RECURSIVE ListLoop(_, _, _, _, _)
RECURSIVE parseList(_, _, _)

\* adf.go 917-935: the nested list that starts on the line after an item is
\* parsed recursively and appended to the content of that item
ListNested(lines, i, ordered, baseIndent, items, listItem, sub) ==
    ListLoop(lines, i + sub.consumed, ordered, baseIndent,
             Append(items, [listItem EXCEPT !.content = @ \o << sub.node >>]))

\* adf.go 904-936: an item at the base indentation; i is the line after it
\* ListItemAt with the nested list parsed as a list of the kind of its parent
ListItemAtSameKind(lines, i, ordered, baseIndent, items, listItem, isOrderedSublist) ==
    IF /\ i <= Len(lines)
       /\ getIndent(lines[i]) > baseIndent
       /\ (isOrderedSublist \/ MatchString(reUnorderedListStart, lines[i]))
    THEN ListNested(lines, i, ordered, baseIndent, items, listItem,
                    parseList(lines, i, ordered))
    ELSE ListLoop(lines, i, ordered, baseIndent, Append(items, listItem))

ListItemAt(lines, i, ordered, baseIndent, items, listItem, isOrderedSublist) ==
    IF /\ i <= Len(lines)
       /\ getIndent(lines[i]) > baseIndent
       /\ (isOrderedSublist \/ MatchString(reUnorderedListStart, lines[i]))
    THEN ListNested(lines, i, ordered, baseIndent, items, listItem,
                    parseList(lines, i, isOrderedSublist))
    ELSE ListLoop(lines, i, ordered, baseIndent, Append(items, listItem))

\* adf.go 882-941: one line of the loop, match being the item pattern on it
ListLine(lines, i, ordered, baseIndent, items, currentIndent, match) ==
    IF currentIndent < baseIndent THEN [items |-> items, i |-> i]
    ELSE IF ~match.ok THEN [items |-> items, i |-> i]
    ELSE IF currentIndent = baseIndent
    THEN ListItemAt(lines, i + 1, ordered, baseIndent, items,
                    ADFNode("listItem", NilAttrs, << Paragraph(Group(lines[i], match, 2)) >>),
                    i + 1 <= Len(lines) /\ MatchString(reOrderedListStart, lines[i + 1]))
    ELSE [items |-> items, i |-> i]

\* the loop of parseList: [items, i] when it leaves the loop
ListLoop(lines, i, ordered, baseIndent, items) ==
    IF i > Len(lines) THEN [items |-> items, i |-> i]
    ELSE ListLine(lines, i, ordered, baseIndent, items, getIndent(lines[i]),
                  ReFind(IF ordered THEN reOrderedListItem ELSE reUnorderedListItem, lines[i]))

ListNode(ordered, start, r) ==
    Parsed(ADFNode(IF ordered THEN "orderedList" ELSE "bulletList",
                   IF ordered THEN Attrs([order |-> NumV(1)]) ELSE NilAttrs,
                   r.items),
           r.i - start)

parseList(lines, start, ordered) ==
    ListNode(ordered, start, ListLoop(lines, start, ordered, getIndent(lines[start]), <<>>))

RECURSIVE TaskLoop(_, _, _, _)
\* adf.go 984-1008: the task item of a matching line at the base indentation
TaskItem(checkbox, itemText) ==
    ADFNode("taskItem",
            Attrs([state |-> StrV(IF checkbox = <<"x">> \/ checkbox = <<"X">>
                                  THEN <<"D", "O", "N", "E">> ELSE <<"T", "O", "D", "O">>)]),
            << Paragraph(itemText) >>)

TaskLine(lines, i, baseIndent, items, currentIndent, matches) ==
    IF currentIndent < baseIndent \/ ~matches.ok \/ currentIndent # baseIndent
    THEN [items |-> items, i |-> i]
    ELSE TaskLoop(lines, i + 1, baseIndent,
                  Append(items, TaskItem(Group(lines[i], matches, 2), Group(lines[i], matches, 3))))

TaskLoop(lines, i, baseIndent, items) ==
    IF i > Len(lines) THEN [items |-> items, i |-> i]
    ELSE TaskLine(lines, i, baseIndent, items, getIndent(lines[i]),
                  ReFind(reTaskListItem, lines[i]))

TaskNode(start, r) == Parsed(ADFNode("taskList", NilAttrs, r.items), r.i - start)

parseTaskList(lines, start) ==
    TaskNode(start, TaskLoop(lines, start, getIndent(lines[start]), <<>>))

RECURSIVE ParagraphLoop(_, _, _)
ParagraphLoop(lines, i, text) ==
    IF i > Len(lines) THEN [text |-> text, i |-> i]
    ELSE IF TrimSpace(lines[i]) = <<>> \/ MatchAny(reBlockElement, lines[i])
         THEN [text |-> text, i |-> i]
         ELSE ParagraphLoop(lines, i + 1,
                  text \o (IF HasSuffix(text, <<" ", " ">>) THEN <<NL>> ELSE <<" ">>) \o lines[i])

ParagraphNode(start, r) == Parsed(Paragraph(r.text), r.i - start)

parseParagraph(lines, start) ==
    ParagraphNode(start, ParagraphLoop(lines, start + 1, lines[start]))

\* adf.go 1291-1313: the trimmed cells of a table line and whether the line is
\* a separator line
SplitCells(cells) ==
    [separator |-> /\ Len(cells) > 0
                   /\ \A k \in 1..Len(cells) :
                         \/ TrimSpace(cells[k]) = <<>>
                         \/ MatchString(reTableSeparator, TrimSpace(cells[k])),
     cells |-> [k \in 1..Len(cells) |-> TrimSpace(cells[k])]]

TableCells(trimmedLine) == SplitCells(Split(TrimSet(trimmedLine, {"|"}), <<"|">>))

RECURSIVE TableLoop(_, _, _)
TableNext(lines, i, rows, c) ==
    TableLoop(lines, i + 1, IF c.separator THEN rows ELSE Append(rows, c.cells))

TableLoop(lines, i, rows) ==
    IF i > Len(lines) \/ ~HasPrefix(TrimSpace(lines[i]), <<"|">>) THEN [rows |-> rows, i |-> i]
    ELSE TableNext(lines, i, rows, TableCells(TrimSpace(lines[i])))

TableRow(cellType, row) ==
    ADFNode("tableRow", NilAttrs,
            [k \in 1..Len(row) |-> ADFNode(cellType, NilAttrs, << Paragraph(row[k]) >>)])

TableNode(start, r) ==
    IF Len(r.rows) = 0 THEN Parsed(EmptyNode, 0)
    ELSE Parsed(ADFNode("table", NilAttrs,
                        [k \in 1..Len(r.rows) |->
                           TableRow(IF k = 1 THEN "tableHeader" ELSE "tableCell", r.rows[k])]),
                r.i - start)

parseTable(lines, start) == TableNode(start, TableLoop(lines, start, <<>>))

(***************************************************************************)
(* encoding/json: Marshal of an ADFDocument and Unmarshal into one         *)
(***************************************************************************)
Opt(cond, key, val) == IF cond THEN key :> val ELSE <<>>

MarshalMark(m) ==
    JObj(("type" :> JStr(m.type)) @@
         Opt(~m.attrs.nil /\ DOMAIN m.attrs.kv # {}, "attrs", JObj(m.attrs.kv)))

RECURSIVE MarshalNode(_)
MarshalNode(n) ==
    JObj(("type" :> JStr(n.type)) @@
         Opt(Len(n.content) > 0, "content",
             JArr([k \in 1..Len(n.content) |-> MarshalNode(n.content[k])])) @@
         Opt(n.text # <<>>, "text", JStr(n.text)) @@
         Opt(Len(n.marks) > 0, "marks",
             JArr([k \in 1..Len(n.marks) |-> MarshalMark(n.marks[k])])) @@
         Opt(~n.attrs.nil /\ DOMAIN n.attrs.kv # {}, "attrs", JObj(n.attrs.kv)))

\* json.Marshal(doc): a nil Content is written as null, an empty one as []
Marshal(doc) ==
    JObj([type |-> JStr(doc.type), version |-> JNum(doc.version),
          content |-> IF doc.nilContent THEN JNull
                      ELSE JArr([k \in 1..Len(doc.content) |-> MarshalNode(doc.content[k])])])

\* a json.RawMessage: its text is empty, the literal null, or something else,
\* which is either malformed or the value val
RawEmpty == [text |-> "empty", valid |-> FALSE, val |-> JNull]
RawNull == [text |-> "null", valid |-> TRUE, val |-> JNull]
RawMalformed == [text |-> "other", valid |-> FALSE, val |-> JNull]
RawOf(v) == [text |-> "other", valid |-> TRUE, val |-> v]

Has(o, key) == key \in DOMAIN o.kv
\* a field of a Go type accepts a JSON value of its kind, or null (left zero)
FieldOK(o, key, kind) == ~Has(o, key) \/ o.kv[key].j \in {kind, "null"}
FieldIs(o, key, kind) == Has(o, key) /\ o.kv[key].j = kind

MarkErr(v) ==
    /\ v.j # "null"
    /\ \/ v.j # "obj"
       \/ ~FieldOK(v, "type", "str")
       \/ ~FieldOK(v, "attrs", "obj")

RECURSIVE NodeErr(_)
NodeErr(v) ==
    /\ v.j # "null"
    /\ \/ v.j # "obj"
       \/ ~FieldOK(v, "type", "str")
       \/ ~FieldOK(v, "text", "str")
       \/ ~FieldOK(v, "content", "arr")
       \/ ~FieldOK(v, "marks", "arr")
       \/ ~FieldOK(v, "attrs", "obj")
       \/ (FieldIs(v, "content", "arr") /\
             \E k \in 1..Len(v.kv["content"].items) : NodeErr(v.kv["content"].items[k]))
       \/ (FieldIs(v, "marks", "arr") /\
             \E k \in 1..Len(v.kv["marks"].items) : MarkErr(v.kv["marks"].items[k]))

DocErr(v) ==
    /\ v.j # "null"
    /\ \/ v.j # "obj"
       \/ ~FieldOK(v, "type", "str")
       \/ ~FieldOK(v, "version", "num")
       \/ (FieldIs(v, "version", "num") /\ v.kv["version"].frac)
       \/ ~FieldOK(v, "content", "arr")
       \/ (FieldIs(v, "content", "arr") /\
             \E k \in 1..Len(v.kv["content"].items) : NodeErr(v.kv["content"].items[k]))

DecodeAttrs(v) == IF FieldIs(v, "attrs", "obj") THEN Attrs(v.kv["attrs"].kv) ELSE NilAttrs

DecodeMark(v) ==
    IF v.j = "null" THEN ADFMark("", NilAttrs)
    ELSE ADFMark(IF FieldIs(v, "type", "str") THEN v.kv["type"].s ELSE "", DecodeAttrs(v))

RECURSIVE DecodeNode(_)
DecodeNode(v) ==
    IF v.j = "null" THEN EmptyNode
    ELSE [type |-> IF FieldIs(v, "type", "str") THEN v.kv["type"].s ELSE "",
          content |-> IF FieldIs(v, "content", "arr")
                      THEN [k \in 1..Len(v.kv["content"].items) |->
                              DecodeNode(v.kv["content"].items[k])]
                      ELSE <<>>,
          text |-> IF FieldIs(v, "text", "str") THEN v.kv["text"].s ELSE <<>>,
          marks |-> IF FieldIs(v, "marks", "arr")
                    THEN [k \in 1..Len(v.kv["marks"].items) |->
                            DecodeMark(v.kv["marks"].items[k])]
                    ELSE <<>>,
          attrs |-> DecodeAttrs(v)]

ZeroDoc == [type |-> "", version |-> 0, content |-> <<>>, nilContent |-> TRUE]

\* json.Unmarshal(raw, &doc)
Unmarshal(raw) ==
    IF ~raw.valid \/ DocErr(raw.val) THEN [err |-> TRUE, doc |-> ZeroDoc]
    ELSE IF raw.val.j = "null" THEN [err |-> FALSE, doc |-> ZeroDoc]
    ELSE [err |-> FALSE,
          doc |-> [type |-> IF FieldIs(raw.val, "type", "str") THEN raw.val.kv["type"].s ELSE "",
                   version |-> IF FieldIs(raw.val, "version", "num")
                               THEN raw.val.kv["version"].n ELSE 0,
                   content |-> IF FieldIs(raw.val, "content", "arr")
                               THEN [k \in 1..Len(raw.val.kv["content"].items) |->
                                       DecodeNode(raw.val.kv["content"].items[k])]
                               ELSE <<>>,
                   nilContent |-> ~FieldIs(raw.val, "content", "arr")]]

(***************************************************************************)
(* MarkdownToADF: block dispatch, panel and expand                         *)
(***************************************************************************)
\* a Document whose Content is the nil slice
NewDocNil == [type |-> "doc", version |-> 1, content |-> <<>>, nilContent |-> TRUE]

\* adf.go 684-688: Content starts as an empty, non-nil slice
NewDoc == [type |-> "doc", version |-> 1, content |-> <<>>, nilContent |-> FALSE]
\* adf.go 681: the literal returned for the empty string
EmptyDocJSON == JObj([type |-> JStr("doc"), version |-> JNum(1), content |-> JArr(<<>>)])

Hung == [node |-> EmptyNode, consumed |-> 0, hung |-> TRUE]
Step(kind, append, r) ==
    [kind |-> kind, append |-> append, node |-> r.node, consumed |-> r.consumed, hung |-> r.hung]

RECURSIVE MarkdownToADF(_)
RECURSIVE MdLoop(_, _, _)
RECURSIVE BlockStep(_, _)

\* the nodes of the body of a panel or expand: MarkdownToADF, then Unmarshal;
\* a failure of either leaves the container empty
Decoded(u) == IF u.err THEN <<>> ELSE u.doc.content
BodyNodes(contentADF) ==
    IF contentADF.hung THEN [hung |-> TRUE, content |-> <<>>]
    ELSE [hung |-> FALSE, content |-> Decoded(Unmarshal(contentADF.raw))]
ContainerBody(content) == BodyNodes(MarkdownToADF(TrimSpace(content)))

Container(type, attrs, body, consumed) ==
    IF body.hung THEN Hung ELSE Parsed(ADFNode(type, attrs, body.content), consumed)

\* adf.go 1373-1427: i is the closing tag, Len(lines) + 1 when there is none
PanelAt(lines, start, match, i) ==
    IF ~match.ok THEN Parsed(EmptyNode, 0)
    ELSE Container("panel", Attrs([panelType |-> StrV(Group(lines[start], match, 1))]),
                   ContainerBody(WriteLines(<<>>, SubSeq(lines, start + 1, i - 1))),
                   i - start + 1)

parsePanel(lines, start) ==
    PanelAt(lines, start, ReFind(rePanelDiv, lines[start]),
            FirstWithPrefix(lines, start + 1, PanelClose))

RECURSIVE FirstContaining(_, _, _)
FirstContaining(lines, i, lit) ==
    IF i > Len(lines) \/ Contains(lines[i], lit) THEN i
    ELSE FirstContaining(lines, i + 1, lit)

\* adf.go 1452-1500: the body runs from line i0 to the closing tag at line i
ExpandBody(lines, start, title, i0, i) ==
    Container(IF Contains(lines[start], <<"n", "e", "s", "t", "e", "d">>)
              THEN "nestedExpand" ELSE "expand",
              Attrs([title |-> StrV(title)]),
              ContainerBody(WriteLines(<<>>, SubSeq(lines, i0, i - 1))),
              i - start + 1)

\* adf.go 1434-1450: the summary is looked for from the line after the opening
\* tag to the end of the input; s1 is its line, Len(lines) + 1 when there is none
ExpandTitle(line, match) ==
    IF match.ok THEN Group(line, match, 1) ELSE <<"D", "e", "t", "a", "i", "l", "s">>

ExpandAt(lines, start, s1) ==
    IF s1 <= Len(lines)
    THEN ExpandBody(lines, start, ExpandTitle(lines[s1], ReFind(reSummaryTag, lines[s1])),
                    s1 + 1, FirstWithPrefix(lines, s1 + 1, DetailsClose))
    ELSE ExpandBody(lines, start, <<"D", "e", "t", "a", "i", "l", "s">>,
                    s1, FirstWithPrefix(lines, s1, DetailsClose))

parseExpand(lines, start) ==
    ExpandAt(lines, start, FirstContaining(lines, start + 1, SummaryOpen))

\* the dispatch with the bullet recognizer tried before the task recognizer
BlockOtherBulletFirst(lines, i, table) ==
    IF HasPrefix(TrimSpace(lines[i]), <<"|">>) /\ table.node.type # ""
    THEN Step("table", TRUE, table)
    ELSE IF HasPrefix(lines[i], PanelPrefix)
    THEN Step("panel", TRUE, parsePanel(lines, i))
    ELSE IF HasPrefix(lines[i], DetailsPrefix)
    THEN Step("expand", TRUE, parseExpand(lines, i))
    ELSE IF HasPrefix(lines[i], QuotePrefix)
    THEN Step("blockquote", TRUE, parseBlockquote(lines, i))
    ELSE IF MatchString(reUnorderedListStart, lines[i])
    THEN Step("bulletList", TRUE, parseList(lines, i, FALSE))
    ELSE IF MatchString(reTaskListItem, lines[i])
    THEN Step("taskList", TRUE, parseTaskList(lines, i))
    ELSE IF MatchString(reOrderedListStart, lines[i])
    THEN Step("orderedList", TRUE, parseList(lines, i, TRUE))
    ELSE Step("paragraph", TRUE, parseParagraph(lines, i))

\* adf.go 694-794: the dispatch of a non-blank line that is neither a fence, a
\* heading nor a rule; table is the sub-parse of a table at this line
BlockOther(lines, i, table) ==
    IF HasPrefix(TrimSpace(lines[i]), <<"|">>) /\ table.node.type # ""
    THEN Step("table", TRUE, table)
    ELSE IF HasPrefix(lines[i], PanelPrefix)
    THEN Step("panel", TRUE, parsePanel(lines, i))
    ELSE IF HasPrefix(lines[i], DetailsPrefix)
    THEN Step("expand", TRUE, parseExpand(lines, i))
    ELSE IF HasPrefix(lines[i], QuotePrefix)
    THEN Step("blockquote", TRUE, parseBlockquote(lines, i))
    ELSE IF MatchString(reTaskListItem, lines[i])
    THEN Step("taskList", TRUE, parseTaskList(lines, i))
    ELSE IF MatchString(reUnorderedListStart, lines[i])
    THEN Step("bulletList", TRUE, parseList(lines, i, FALSE))
    ELSE IF MatchString(reOrderedListStart, lines[i])
    THEN Step("orderedList", TRUE, parseList(lines, i, TRUE))
    ELSE Step("paragraph", TRUE, parseParagraph(lines, i))

BlockAt(lines, i, heading) ==
    IF TrimSpace(lines[i]) = <<>>
    THEN Step("blank", FALSE, Parsed(EmptyNode, 1))
    ELSE IF HasPrefix(lines[i], Fence)
    THEN Step("codeBlock", TRUE, parseCodeBlock(lines, i))
    ELSE IF heading.ok
    THEN Step("heading", TRUE,
              Parsed(ADFNode("heading",
                             Attrs([level |-> NumV(Len(Group(lines[i], heading, 1)))]),
                             parseInlineContent(Group(lines[i], heading, 2))), 1))
    ELSE IF MatchAny(reHorizontalRule, TrimSpace(lines[i]))
    THEN Step("rule", TRUE, Parsed(ADFNode("rule", NilAttrs, <<>>), 1))
    ELSE BlockOther(lines, i, parseTable(lines, i))

\* one iteration of the block loop at line i (adf.go 693-794)
BlockStep(lines, i) == BlockAt(lines, i, ReFind(reHeading, lines[i]))

\* the block loop run to its end; hung when an iteration neither returns
\* nor advances the cursor (the loop then appends nodes for ever)
MdNext(lines, i, content, st) ==
    IF st.hung \/ st.consumed = 0 THEN [hung |-> TRUE, content |-> content]
    ELSE MdLoop(lines, i + st.consumed,
                IF st.append THEN Append(content, st.node) ELSE content)

MdLoop(lines, i, content) ==
    IF i > Len(lines) THEN [hung |-> FALSE, content |-> content]
    ELSE MdNext(lines, i, content, BlockStep(lines, i))

MdResult(r) ==
    IF r.hung THEN [hung |-> TRUE, raw |-> RawEmpty]
    ELSE [hung |-> FALSE, raw |-> RawOf(Marshal([NewDoc EXCEPT !.content = r.content]))]

MarkdownToADF(markdown) ==
    IF markdown = <<>> THEN [hung |-> FALSE, raw |-> RawOf(EmptyDocJSON)]
    ELSE MdResult(MdLoop(Split(markdown, <<NL>>), 1, <<>>))

(***************************************************************************)
(* ADFToMarkdown                                                           *)
(***************************************************************************)
\* strings.Repeat panics on a negative count: the panic is carried in the
\* result as a token that no string operation of the serializer removes
PanicTok == "PANIC: strings: negative Repeat count"
GoRepeat(s, n) == IF n < 0 THEN << PanicTok >> ELSE Repeat(s, n)
Panicked(s) == \E k \in 1..Len(s) : s[k] = PanicTok

StrAttr(attrs, key, default) == IF HasStr(attrs, key) THEN attrs.kv[key].s ELSE default

\* the last mark of the given type, as the loop of applyMarks leaves it
LastMark(marks, type) ==
    LET at == {k \in 1..Len(marks) : marks[k].type = type}
    IN  IF at = {} THEN [found |-> FALSE, attrs |-> NilAttrs]
        ELSE [found |-> TRUE,
              attrs |-> marks[CHOOSE k \in at : \A m \in at : k >= m].attrs]
HasMark(marks, type) == \E k \in 1..Len(marks) : marks[k].type = type

Wrap(on, open, text, close) == IF on THEN open \o text \o close ELSE text

\* v, ok := mark.Attrs[key].(string) for the last mark of a type, if any
MarkStr(mark, key) ==
    [ok |-> mark.found /\ HasStr(mark.attrs, key), v |-> StrAttr(mark.attrs, key, <<>>)]

SubSup(typ, text) ==
    IF typ.ok /\ typ.v = <<"s", "u", "b">>
    THEN <<"<", "s", "u", "b", ">">> \o text \o <<"<", "/", "s", "u", "b", ">">>
    ELSE IF typ.ok /\ typ.v = <<"s", "u", "p">>
    THEN <<"<", "s", "u", "p", ">">> \o text \o <<"<", "/", "s", "u", "p", ">">>
    ELSE text

ColorSpan(color, text) ==
    Wrap(color.ok,
         <<"<", "s", "p", "a", "n", " ", "s", "t", "y", "l", "e", "=", DQ,
           "c", "o", "l", "o", "r", ":", " ">> \o color.v \o <<DQ, ">">>,
         text, SpanClose)

BorderSpan(color, text) ==
    Wrap(color.ok,
         <<"<", "s", "p", "a", "n", " ", "s", "t", "y", "l", "e", "=", DQ,
           "b", "o", "r", "d", "e", "r", ":", " ", "1", "p", "x", " ",
           "s", "o", "l", "i", "d", " ">> \o color.v \o <<DQ, ">">>,
         text, SpanClose)

LinkWrap(href, text) == Wrap(href.ok, <<"[">>, text, <<"]", "(">> \o href.v \o <<")">>)

\* applyMarks with the underline inside the strikethrough
applyMarksUnderlineInside(text, marks) ==
    IF Len(marks) = 0 THEN text
    ELSE LinkWrap(MarkStr(LastMark(marks, "link"), "href"),
         Wrap(HasMark(marks, "strong"), <<"*", "*">>,
         Wrap(HasMark(marks, "em"), <<"*">>,
         BorderSpan(MarkStr(LastMark(marks, "border"), "color"),
         ColorSpan(MarkStr(LastMark(marks, "textColor"), "color"),
         Wrap(HasMark(marks, "strike"), <<"~", "~">>,
         Wrap(HasMark(marks, "underline"), <<"<", "u", ">">>,
         SubSup(MarkStr(LastMark(marks, "subsup"), "type"),
         Wrap(HasMark(marks, "code"), <<BQ>>, text, <<BQ>>)),
         <<"<", "/", "u", ">">>),
         <<"~", "~">>))),
         <<"*">>),
         <<"*", "*">>))

\* adf.go 335-420: the marks wrap the text from the innermost (code) to the
\* outermost (link)
applyMarks(text, marks) ==
    IF Len(marks) = 0 THEN text
    ELSE LinkWrap(MarkStr(LastMark(marks, "link"), "href"),
         Wrap(HasMark(marks, "strong"), <<"*", "*">>,
         Wrap(HasMark(marks, "em"), <<"*">>,
         BorderSpan(MarkStr(LastMark(marks, "border"), "color"),
         ColorSpan(MarkStr(LastMark(marks, "textColor"), "color"),
         Wrap(HasMark(marks, "underline"), <<"<", "u", ">">>,
         Wrap(HasMark(marks, "strike"), <<"~", "~">>,
         SubSup(MarkStr(LastMark(marks, "subsup"), "type"),
         Wrap(HasMark(marks, "code"), <<BQ>>, text, <<BQ>>)),
         <<"~", "~">>),
         <<"<", "/", "u", ">">>))),
         <<"*">>),
         <<"*", "*">>))

mediaToMarkdown(node) ==
    LET alt == StrAttr(node.attrs, "alt", <<>>)
        url == IF HasStr(node.attrs, "url") THEN node.attrs.kv["url"].s
               ELSE IF HasStr(node.attrs, "src") THEN node.attrs.kv["src"].s
               ELSE IF HasStr(node.attrs, "id") THEN AttachmentScheme \o node.attrs.kv["id"].s
               ELSE <<>>
    IN  IF node.attrs.nil \/ url = <<>> THEN <<>>
        ELSE <<"!", "[">> \o alt \o <<"]", "(">> \o url \o <<")">>

mediaInlineToMarkdown(node) == mediaToMarkdown(node)

mediaGroupToMarkdown(node) ==
    LET at == SelectSeq([k \in 1..Len(node.content) |-> k],
                        LAMBDA k : node.content[k].type = "media")
    IN  Join([k \in 1..Len(at) |-> mediaToMarkdown(node.content[at[k]])], <<" ">>)

mediaSingleToMarkdown(node) ==
    LET at == {k \in 1..Len(node.content) : node.content[k].type = "media"}
    IN  IF at = {} THEN <<>>
        ELSE mediaToMarkdown(node.content[CHOOSE k \in at : \A m \in at : k <= m])

emojiToMarkdown(node) ==
    IF node.attrs.nil THEN <<>>
    ELSE IF HasStr(node.attrs, "shortName") THEN node.attrs.kv["shortName"].s
    ELSE StrAttr(node.attrs, "text", <<>>)

mentionToMarkdown(node) ==
    IF node.attrs.nil THEN <<>>
    ELSE IF HasStr(node.attrs, "text") THEN <<"@">> \o node.attrs.kv["text"].s
    ELSE IF HasStr(node.attrs, "id") THEN <<"@">> \o node.attrs.kv["id"].s
    ELSE <<"@", "u", "s", "e", "r">>

dateToMarkdown(node) ==
    IF node.attrs.nil THEN <<>> ELSE StrAttr(node.attrs, "timestamp", <<>>)

statusToMarkdown(node) ==
    IF node.attrs.nil THEN <<>>
    ELSE <<"<", "s", "p", "a", "n", " ", "d", "a", "t", "a", "-", "s", "t", "a", "t", "u", "s", "=", DQ>>
         \o StrAttr(node.attrs, "color", <<"n", "e", "u", "t", "r", "a", "l">>) \o <<DQ, ">">>
         \o StrAttr(node.attrs, "text", <<"S", "t", "a", "t", "u", "s">>) \o SpanClose

inlineCardToMarkdown(node) ==
    LET url == StrAttr(node.attrs, "url", <<>>)
        data == IF ~node.attrs.nil /\ "data" \in DOMAIN node.attrs.kv
                   /\ node.attrs.kv["data"].j = "obj"
                THEN Attrs(node.attrs.kv["data"].kv) ELSE NilAttrs
    IN  IF node.attrs.nil \/ url = <<>> THEN <<>>
        ELSE <<"[">> \o StrAttr(data, "title", url) \o <<"]", "(">> \o url \o <<")">>

\* int(l) of the float64 level attribute
headingLevel(node) ==
    IF HasNum(node.attrs, "level") THEN node.attrs.kv["level"].n ELSE 1

\* the header row and the data rows that the row loop of tableToMarkdown builds
RECURSIVE TableRows(_, _, _, _)
TableRows(rowCells, hasHeader, headerRow, rows) ==
    IF rowCells = <<>> THEN [headerRow |-> headerRow, rows |-> rows]
    ELSE LET r == rowCells[1]
             has == hasHeader \/ r.header
         IN  IF ~r.isRow THEN TableRows(Tail(rowCells), hasHeader, headerRow, rows)
             ELSE IF Len(r.cells) = 0 THEN TableRows(Tail(rowCells), has, headerRow, rows)
             ELSE IF has /\ Len(headerRow) = 0
                  THEN TableRows(Tail(rowCells), FALSE, r.cells, rows)
                  ELSE TableRows(Tail(rowCells), has, headerRow, Append(rows, r.cells))

TableLine(cells) == <<"|", " ">> \o Join(cells, <<" ", "|", " ">>) \o <<" ", "|", NL>>

RECURSIVE nodeToMarkdown(_, _)

\* the markup of the children, concatenated last to first
ChildrenReversed(node, depth) ==
    Concat([k \in 1..Len(node.content) |->
              nodeToMarkdown(node.content[Len(node.content) + 1 - k], depth)])

\* the markup of the children, concatenated
Children(node, depth) ==
    Concat([k \in 1..Len(node.content) |-> nodeToMarkdown(node.content[k], depth)])

paragraphToMarkdown(node) == Children(node, 0)

headingToMarkdown(node) ==
    GoRepeat(<<"#">>, headingLevel(node)) \o <<" ">> \o Children(node, 0)

\* listToMarkdown without the two spaces of indentation per level
listToMarkdownFlat(node, depth, ordered) ==
    Concat([k \in 1..Len(node.content) |->
              IF node.content[k].type = "listItem"
              THEN (IF ordered THEN Itoa(k) \o <<".", " ">> ELSE <<"-", " ">>)
                   \o nodeToMarkdown(node.content[k], depth) \o <<NL>>
              ELSE <<>>])

\* listToMarkdown with the items numbered from the order attribute of the list
listToMarkdownFromOrder(node, depth, ordered) ==
    Concat([k \in 1..Len(node.content) |->
              IF node.content[k].type = "listItem"
              THEN Repeat(<<" ", " ">>, depth)
                   \o (IF ordered
                       THEN Itoa((IF HasNum(node.attrs, "order")
                                  THEN node.attrs.kv["order"].n ELSE 1) + k - 1) \o <<".", " ">>
                       ELSE <<"-", " ">>)
                   \o nodeToMarkdown(node.content[k], depth) \o <<NL>>
              ELSE <<>>])

listToMarkdown(node, depth, ordered) ==
    Concat([k \in 1..Len(node.content) |->
              IF node.content[k].type = "listItem"
              THEN Repeat(<<" ", " ">>, depth)
                   \o (IF ordered THEN Itoa(k) \o <<".", " ">> ELSE <<"-", " ">>)
                   \o nodeToMarkdown(node.content[k], depth) \o <<NL>>
              ELSE <<>>])

taskListToMarkdown(node, depth) ==
    Concat([k \in 1..Len(node.content) |->
              LET item == node.content[k] IN
              IF item.type # "taskItem" THEN <<>>
              ELSE Repeat(<<" ", " ">>, depth)
                   \o (IF StrAttr(item.attrs, "state", <<"T", "O", "D", "O">>) = <<"D", "O", "N", "E">>
                       THEN <<"-", " ", "[", "x", "]", " ">> ELSE <<"-", " ", "[", " ", "]", " ">>)
                   \o Children(item, depth)
                   \o (IF k < Len(node.content) THEN <<NL>> ELSE <<>>)])

codeBlockToMarkdown(node) ==
    Fence \o StrAttr(node.attrs, "language", <<>>) \o <<NL>>
    \o Concat([k \in 1..Len(node.content) |->
                 IF node.content[k].type = "text" THEN node.content[k].text ELSE <<>>])
    \o <<NL>> \o Fence

blockquoteToMarkdown(node) ==
    LET lines == Split(TrimSpace(Children(node, 0)), <<NL>>)
    IN  Join([k \in 1..Len(lines) |-> QuotePrefix \o lines[k]], <<NL>>)

\* adf.go 466-484: the header line and its separator, then the data lines
TableText(t) ==
    TrimSuffix((IF Len(t.headerRow) > 0
                THEN TableLine(t.headerRow) \o <<"|">>
                     \o Repeat(<<" ", "-", "-", "-", " ", "|">>, Len(t.headerRow)) \o <<NL>>
                ELSE <<>>)
               \o Concat([k \in 1..Len(t.rows) |-> TableLine(t.rows[k])]),
               <<NL>>)

\* the content of the cell with its newlines kept
CellTextKeepingNewlines(cell) == TrimSpace(Children(cell, 0))

\* adf.go 440-447: the trimmed markup of the cell with newlines as spaces
CellText(cell) == ReplaceChar(TrimSpace(Children(cell, 0)), NL, " ")

RowCells(row) ==
    [isRow |-> row.type = "tableRow",
     header |-> \E c \in 1..Len(row.content) : row.content[c].type = "tableHeader",
     cells |-> [c \in 1..Len(row.content) |-> CellText(row.content[c])]]

tableToMarkdown(node) ==
    TableText(TableRows([k \in 1..Len(node.content) |-> RowCells(node.content[k])],
                        FALSE, <<>>, <<>>))

panelToMarkdown(node) ==
    <<"<", "d", "i", "v", " ", "d", "a", "t", "a", "-", "p", "a", "n", "e", "l", "=", DQ>>
    \o StrAttr(node.attrs, "panelType", <<"i", "n", "f", "o">>) \o <<DQ, ">", NL, NL>>
    \o TrimSpace(Children(node, 0)) \o <<NL, NL>> \o PanelClose

expandToMarkdown(node, nested) ==
    <<"<">> \o (IF nested THEN <<"d", "e", "t", "a", "i", "l", "s", " ", "c", "l", "a", "s", "s", "=",
                                 DQ, "n", "e", "s", "t", "e", "d", DQ>>
                ELSE <<"d", "e", "t", "a", "i", "l", "s">>)
    \o <<">", NL>> \o SummaryOpen \o StrAttr(node.attrs, "title", <<"D", "e", "t", "a", "i", "l", "s">>)
    \o <<"<", "/", "s", "u", "m", "m", "a", "r", "y", ">", NL, NL>>
    \o TrimSpace(Children(node, 0)) \o <<NL>> \o DetailsClose

nodeToMarkdown(node, depth) ==
    CASE node.type = "paragraph" -> paragraphToMarkdown(node)
      [] node.type = "heading" -> headingToMarkdown(node)
      [] node.type = "bulletList" -> TrimSuffix(listToMarkdown(node, depth, FALSE), <<NL>>)
      [] node.type = "orderedList" -> TrimSuffix(listToMarkdown(node, depth, TRUE), <<NL>>)
      [] node.type = "taskList" -> taskListToMarkdown(node, depth)
      [] node.type = "listItem" ->
           Concat([k \in 1..Len(node.content) |->
                     (IF k > 1 /\ node.content[k].type \in {"bulletList", "orderedList"}
                      THEN <<NL>> ELSE <<>>)
                     \o nodeToMarkdown(node.content[k], depth + 1)])
      [] node.type = "codeBlock" -> codeBlockToMarkdown(node)
      [] node.type = "blockquote" -> blockquoteToMarkdown(node)
      [] node.type = "rule" -> <<"-", "-", "-">>
      [] node.type = "hardBreak" -> <<" ", " ", NL>>
      [] node.type = "table" -> tableToMarkdown(node)
      [] node.type = "panel" -> panelToMarkdown(node)
      [] node.type = "expand" -> expandToMarkdown(node, FALSE)
      [] node.type = "nestedExpand" -> expandToMarkdown(node, TRUE)
      [] node.type = "mediaGroup" -> mediaGroupToMarkdown(node)
      [] node.type = "mediaSingle" -> mediaSingleToMarkdown(node)
      [] node.type = "mediaInline" -> mediaInlineToMarkdown(node)
      [] node.type = "emoji" -> emojiToMarkdown(node)
      [] node.type = "mention" -> mentionToMarkdown(node)
      [] node.type = "date" -> dateToMarkdown(node)
      [] node.type = "status" -> statusToMarkdown(node)
      [] node.type = "inlineCard" -> inlineCardToMarkdown(node)
      [] node.type = "text" -> applyMarks(node.text, node.marks)
      [] OTHER -> Children(node, depth)

\* the markup of the decoded Document, unless a node panics
Rendered(md) ==
    IF Panicked(md) THEN [md |-> <<>>, err |-> FALSE, panic |-> TRUE]
    ELSE [md |-> TrimSpace(md), err |-> FALSE, panic |-> FALSE]

\* Render with the decode error dropped: the zero Document is serialized
RenderLenient(u) ==
    Rendered(Join([k \in 1..Len(u.doc.content) |-> nodeToMarkdown(u.doc.content[k], 0)],
                  <<NL, NL>>))

Render(u) ==
    IF u.err THEN [md |-> <<>>, err |-> TRUE, panic |-> FALSE]
    ELSE Rendered(Join([k \in 1..Len(u.doc.content) |-> nodeToMarkdown(u.doc.content[k], 0)],
                       <<NL, NL>>))

\* ADFToMarkdown(adfJSON): the markup, whether an error is returned, and
\* whether the call panics instead of returning
ADFToMarkdown(adfJSON) ==
    IF adfJSON.text = "empty" \/ adfJSON.text = "null"
    THEN [md |-> <<>>, err |-> FALSE, panic |-> FALSE]
    ELSE Render(Unmarshal(adfJSON))

(***************************************************************************)
(* Push: issues, their content hash and the writes of pushIssue            *)
(***************************************************************************)
\* sort.Strings: byte order, the characters of labels ranked by Alphabet
Alphabet == <<",", ":", ";", "a", "b", "c", "d", "m", "x", "y", "|">>
CharOrd(c) == CHOOSE k \in 1..Len(Alphabet) : Alphabet[k] = c
StrLess(a, b) ==
    \E k \in 1..(Min(Len(a), Len(b)) + 1) :
        /\ \A j \in 1..(k - 1) : a[j] = b[j]
        /\ \/ k > Len(a) /\ k <= Len(b)
           \/ k <= Len(a) /\ k <= Len(b) /\ CharOrd(a[k]) < CharOrd(b[k])
SortRank(ss, n) ==
    Cardinality({j \in 1..Len(ss) : StrLess(ss[j], ss[n]) \/ (ss[j] = ss[n] /\ j <= n)})
SortStrings(ss) == [p \in 1..Len(ss) |-> ss[CHOOSE n \in 1..Len(ss) : SortRank(ss, n) = p]]

\* storage.go 551-560
normalizeLabels(labels) == SortStrings(labels)

\* crypto/sha256 taken as collision-free: the digest stands for the text
Sum256(text) == text

\* storage.go 571-598: the text that is hashed leaves out Assignee
ComputeHash(issue) ==
    Sum256(issue.JiraKey \o <<"|">> \o issue.Title \o <<"|">> \o issue.Description
           \o <<"|">> \o issue.Status \o <<"|">>
           \o Join(normalizeLabels(issue.Labels), <<",">>) \o <<"|">>
           \o Concat([k \in 1..Len(issue.Comments) |->
                        issue.Comments[k].Author \o <<":">>
                        \o issue.Comments[k].Body \o <<";">>]))

\* part_010 440-451: equal lengths and equal elements, in order
equalStringSlices(a, b) == a = b

StatusOpen == <<"o", "p", "e", "n">>
StatusDone == <<"d", "o", "n", "e">>
StatusOdd == <<"o", "d", "d">>
\* the statuses of the workflow cache, and the transitions Jira offers
WorkflowStatuses == {StatusOpen, StatusDone}
Transitions(from) == IF from = StatusOpen THEN {StatusDone} ELSE {}

\* the API call that fails during one run of pushIssue, if any
Failures ==
    {"none", "UpdateIssue", "GetTransitions", "TransitionIssue", "AddComment", "GetIssue",
     "SaveIssue"}
\* the account that Push is authenticated as
Me == <<"m", "e">>

\* part_010 316-345: summary, description and labels in one UpdateIssue call
FieldsDiffer(l, r) ==
    \/ l.Title # r.Title
    \/ l.Description # r.Description
    \/ ~equalStringSlices(l.Labels, r.Labels)
StageFields(l, st, fail) ==
    IF ~FieldsDiffer(l, st.remote) THEN st
    ELSE IF fail = "UpdateIssue" THEN [st EXCEPT !.err = TRUE]
    ELSE [st EXCEPT !.remote.Title = l.Title,
                    !.remote.Description = l.Description,
                    !.remote.Labels = l.Labels,
                    !.calls = Append(@, "UpdateIssue")]

\* part_010 348-400: the status goes through a workflow transition
StageStatus(l, r, st, fail) ==
    IF st.err \/ l.Status = r.Status THEN st
    ELSE IF \/ l.Status \notin WorkflowStatuses
            \/ fail = "GetTransitions"
            \/ l.Status \notin Transitions(r.Status)
            \/ fail = "TransitionIssue"
         THEN [st EXCEPT !.err = TRUE]
    ELSE [st EXCEPT !.remote.Status = l.Status, !.calls = Append(@, "TransitionIssue")]

\* part_010 402-416: the comments the local copy has beyond the remote count
NewComments(l, r) ==
    [k \in 1..(Len(l.Comments) - Len(r.Comments)) |->
        [Author |-> Me, Body |-> l.Comments[Len(r.Comments) + k].Body]]
StageComments(l, r, st, fail) ==
    IF st.err \/ Len(l.Comments) <= Len(r.Comments) THEN st
    ELSE IF fail = "AddComment" THEN [st EXCEPT !.err = TRUE]
    ELSE [st EXCEPT !.remote.Comments = @ \o NewComments(l, r),
                    !.calls = @ \o [k \in 1..Len(NewComments(l, r)) |-> "AddComment"]]

\* part_010 418-436 and storage.go 59-62: the issue is fetched again and saved
\* with its hash; a failure here leaves the local file as it is
StageSave(l, st, fail) ==
    [remote |-> st.remote, calls |-> st.calls, err |-> st.err,
     saved |-> ~st.err /\ fail \notin {"GetIssue", "SaveIssue"},
     local |-> IF ~st.err /\ fail \notin {"GetIssue", "SaveIssue"}
               THEN [st.remote EXCEPT !.Hash = ComputeHash(st.remote)]
               ELSE l]

\* part_010 313-437
pushIssue(l, r, fail) ==
    StageSave(l, StageComments(l, r,
                 StageStatus(l, r,
                    StageFields(l, [remote |-> r, calls |-> <<>>, err |-> FALSE], fail),
                    fail),
                 fail),
              fail)

(***************************************************************************)
(* The converters as a state machine: one input document is converted back *)
(* and forth, ADFToMarkdown as one step and MarkdownToADF one iteration of *)
(* its block loop at a time                                                *)
(***************************************************************************)
\* blocks per markdown input
MaxBlocks == 2
\* conversions applied in a row to one input
MaxConv == 3
\* nodes appended by a block loop that does not advance before it is cut off
MaxNodes == 3

VARIABLES input, hist, pc, lines, i, doc
convVars == <<input, hist, pc, lines, i, doc>>

\* Push: the issues of Jira, the local issue files, the remote issues as the
\* last pull or save saw them, the run of Push, the writes made through the
\* API and the number of edits made by hand
VARIABLES remote, local, pulled, push, api, edits
pushVars == <<remote, local, pulled, push, api, edits>>

\* parseInlineContent: the text it was called with, what remains of it, the
\* nodes appended so far, the span of the text each of them stands for, and
\* where the call is
VARIABLE inline
inlVars == <<inline>>

\* parseAttachments: the lines of the section, the line the loop stands at and the attachments of the issue so far
VARIABLE att
attVars == <<att>>

\* An issue file: the issue handed to SaveIssue, the front matter and the body of the file written, the issue that ReadIssue returns and what Push makes of it
VARIABLE store
storeVars == <<store>>

\* Pull: the issues of the project in Jira in the order of the search, the keys that have a local file, and the search and the run of Pull
VARIABLE pull
pullVars == <<pull>>

\* Registry: the projects in memory, the projects in the file, and the outcome of the last call
VARIABLE reg
regVars == <<reg>>

\* Daemons: the socket file and the PID file that the processes share, and each process's position in Start
VARIABLE daemon
daemonVars == <<daemon>>

vars == <<input, hist, pc, lines, i, doc, remote, local, pulled, push, api, edits, inline,
         att,
         store,
         pull,
         reg,
         daemon>>

\* lines and short runs of lines: blank lines, plain text, block openers that
\* are complete, incomplete or malformed, and closed containers
LinePool ==
    { <<>>,
      <<" ", " ">>,
      <<"a", "b">>,
      <<"-", " ">>,
      <<"-", " ", "a">>,
      <<" ", " ", "-", " ", "b">>,
      <<"1", ".", " ", "c">>,
      <<"-", " ", "[", "x", "]", " ", "t">>,
      <<"#", " ", "h">>,
      <<"-", "-", "-">>,
      <<BQ, BQ, BQ>>,
      <<"|", " ", "a", " ", "|">>,
      <<">", " ", "q">>,
      <<"[", "a">>,
      <<"<", "d", "i", "v", " ", "d", "a", "t", "a", "-", "p", "a", "n", "e", "l", "=", "x", ">">>,
      <<"<", "/", "d", "i", "v", ">">>,
      <<"<", "d", "e", "t", "a", "i", "l", "s", ">">>,
      <<"<", "/", "d", "e", "t", "a", "i", "l", "s", ">">>,
      <<"<", "d", "i", "v", " ", "d", "a", "t", "a", "-", "p", "a", "n", "e", "l", "=", DQ, "i", "n", "f", "o", DQ, ">", NL, "-", " ", NL, "a", "b", NL, "<", "/", "d", "i", "v", ">">>,
      <<"<", "d", "e", "t", "a", "i", "l", "s", ">", NL, "<", "s", "u", "m", "m", "a", "r", "y", ">", "t", "<", "/", "s", "u", "m", "m", "a", "r", "y", ">", NL, "a", "b", NL, "<", "/", "d", "e", "t", "a", "i", "l", "s", ">">> }

\* blocks written in the canonical syntax of the serializer
CanonPool ==
    { <<"a", "b", " ", "c", "d">>,
      <<"*", "*", "*", "b", "i", "*", "*", "*">>,
      <<"*", "*", "b", "*", "*", " ", "*", "i", "*", " ", BQ, "c", BQ, " ", "~", "~", "s", "~", "~", " ", "[", "t", "]", "(", "u", ")">>,
      <<"#", " ", "h">>,
      <<"#", "#", "#", "#", "#", "#", " ", "h", " ", "*", "*", "b", "*", "*">>,
      <<"1", ".", " ", "a", NL, "2", ".", " ", "b", NL, "3", ".", " ", "c">>,
      <<"-", " ", "a", NL, " ", " ", "-", " ", "b", NL, " ", " ", " ", " ", "-", " ", "c", NL, "-", " ", "d">>,
      <<"1", ".", " ", "a", NL, " ", " ", "-", " ", "b", NL, " ", " ", " ", " ", "1", ".", " ", "c", NL, " ", " ", "-", " ", "d", NL, "2", ".", " ", "e">>,
      <<"-", " ", "*", "*", "b", "*", "*", NL, "-", " ", "*", "i", "*">>,
      <<BQ, BQ, BQ, "g", "o", NL, "x", " ", "=", " ", "1", NL, BQ, BQ, BQ>>,
      <<BQ, BQ, BQ, "p", "y", NL, "a", NL, NL, "b", NL, BQ, BQ, BQ>>,
      <<">", " ", "a", NL, ">", " ", "b">>,
      <<"-", "-", "-">>,
      <<"|", " ", "a", " ", "|", " ", "b", " ", "|", NL, "|", " ", "-", "-", "-", " ", "|", " ", "-", "-", "-", " ", "|", NL, "|", " ", "c", " ", "|", " ", "d", " ", "|", NL, "|", " ", "e", " ", "|", " ", "f", " ", "|">> }

\* document trees: the content of one Document each
TreePool ==
    { \* plain text with underscores
      <<ADFNode("paragraph", NilAttrs, <<TextNode(<<"a", "_", "b", "_", "c">>, <<>>)>>)>>,
      \* plain text with asterisks
      <<ADFNode("paragraph", NilAttrs, <<TextNode(<<"a", "*", "b", "*", "c">>, <<>>)>>)>>,
      \* two paragraphs
      <<ADFNode("paragraph", NilAttrs, <<TextNode(<<"a", "b">>, <<>>)>>), ADFNode("paragraph", NilAttrs, <<TextNode(<<"c", "d">>, <<>>)>>)>>,
      \* table without a header row
      <<ADFNode("table", NilAttrs, <<ADFNode("tableRow", NilAttrs, <<ADFNode("tableCell", NilAttrs, <<ADFNode("paragraph", NilAttrs, <<TextNode(<<"a">>, <<>>)>>)>>), ADFNode("tableCell", NilAttrs, <<ADFNode("paragraph", NilAttrs, <<TextNode(<<"b">>, <<>>)>>)>>)>>), ADFNode("tableRow", NilAttrs, <<ADFNode("tableCell", NilAttrs, <<ADFNode("paragraph", NilAttrs, <<TextNode(<<"c">>, <<>>)>>)>>), ADFNode("tableCell", NilAttrs, <<ADFNode("paragraph", NilAttrs, <<TextNode(<<"d">>, <<>>)>>)>>)>>)>>)>>,
      \* table with a header row
      <<ADFNode("table", NilAttrs, <<ADFNode("tableRow", NilAttrs, <<ADFNode("tableHeader", NilAttrs, <<ADFNode("paragraph", NilAttrs, <<TextNode(<<"a">>, <<>>)>>)>>), ADFNode("tableHeader", NilAttrs, <<ADFNode("paragraph", NilAttrs, <<TextNode(<<"b">>, <<>>)>>)>>)>>), ADFNode("tableRow", NilAttrs, <<ADFNode("tableCell", NilAttrs, <<ADFNode("paragraph", NilAttrs, <<TextNode(<<"c">>, <<>>)>>)>>), ADFNode("tableCell", NilAttrs, <<ADFNode("paragraph", NilAttrs, <<TextNode(<<"d">>, <<>>)>>)>>)>>)>>)>>,
      \* mediaSingle holding an attachment
      <<ADFNode("mediaSingle", NilAttrs, <<ADFNode("media", Attrs([id |-> StrV(<<"1", "2">>), type |-> StrV(<<"f", "i", "l", "e">>), alt |-> StrV(<<"p", "i", "c">>)]), <<>>)>>)>>,
      \* mediaSingle holding an external image
      <<ADFNode("mediaSingle", NilAttrs, <<ADFNode("media", Attrs([url |-> StrV(<<"u", "/", "p", ".", "p", "n", "g">>), type |-> StrV(<<"e", "x", "t", "e", "r", "n", "a", "l">>), alt |-> StrV(<<"p", "i", "c">>)]), <<>>)>>)>>,
      \* mediaGroup of two attachments
      <<ADFNode("mediaGroup", NilAttrs, <<ADFNode("media", Attrs([id |-> StrV(<<"1">>), type |-> StrV(<<"f", "i", "l", "e">>), alt |-> StrV(<<"a">>)]), <<>>), ADFNode("media", Attrs([id |-> StrV(<<"2">>), type |-> StrV(<<"f", "i", "l", "e">>), alt |-> StrV(<<"b">>)]), <<>>)>>)>>,
      \* media node inside a paragraph
      <<ADFNode("paragraph", NilAttrs, <<TextNode(<<"s", "e", "e", " ">>, <<>>), ADFNode("media", Attrs([id |-> StrV(<<"1", "2">>), type |-> StrV(<<"f", "i", "l", "e">>), alt |-> StrV(<<"p", "i", "c">>)]), <<>>)>>)>>,
      \* mediaInline inside a paragraph
      <<ADFNode("paragraph", NilAttrs, <<ADFNode("mediaInline", Attrs([id |-> StrV(<<"1", "2">>), alt |-> StrV(<<"p", "i", "c">>)]), <<>>)>>)>>,
      \* media without attrs
      <<ADFNode("mediaSingle", NilAttrs, <<ADFNode("media", NilAttrs, <<>>)>>)>>,
      \* heading of level 3
      <<ADFNode("heading", Attrs([level |-> NumV(3)]), <<TextNode(<<"h">>, <<>>)>>)>>,
      \* heading of level -1
      <<ADFNode("heading", Attrs([level |-> NumV(-1)]), <<TextNode(<<"h">>, <<>>)>>)>>,
      \* heading of level 0
      <<ADFNode("heading", Attrs([level |-> NumV(0)]), <<TextNode(<<"h">>, <<>>)>>)>>,
      \* heading of level 7
      <<ADFNode("heading", Attrs([level |-> NumV(7)]), <<TextNode(<<"h">>, <<>>)>>)>>,
      \* heading without attrs
      <<ADFNode("heading", NilAttrs, <<TextNode(<<"h">>, <<>>)>>)>>,
      \* heading whose level is a string
      <<ADFNode("heading", Attrs([level |-> StrV(<<"2">>)]), <<TextNode(<<"h">>, <<>>)>>)>>,
      \* unknown kind wrapping text
      <<ADFNode("widget", NilAttrs, <<TextNode(<<"h", "e", "l", "l", "o">>, <<>>)>>)>>,
      \* unknown kind wrapping a paragraph and a list
      <<ADFNode("layoutSection", NilAttrs, <<ADFNode("paragraph", NilAttrs, <<TextNode(<<"a", "b">>, <<>>)>>), ADFNode("bulletList", NilAttrs, <<ADFNode("listItem", NilAttrs, <<ADFNode("paragraph", NilAttrs, <<TextNode(<<"c">>, <<>>)>>)>>)>>)>>)>>,
      \* panel with two paragraphs
      <<ADFNode("panel", Attrs([panelType |-> StrV(<<"i", "n", "f", "o">>)]), <<ADFNode("paragraph", NilAttrs, <<TextNode(<<"a", "b">>, <<>>)>>), ADFNode("paragraph", NilAttrs, <<TextNode(<<"c", "d">>, <<>>)>>)>>)>>,
      \* panel without attrs
      <<ADFNode("panel", NilAttrs, <<ADFNode("paragraph", NilAttrs, <<TextNode(<<"a", "b">>, <<>>)>>)>>)>>,
      \* expand with a title and two blocks
      <<ADFNode("expand", Attrs([title |-> StrV(<<"t">>)]), <<ADFNode("paragraph", NilAttrs, <<TextNode(<<"a", "b">>, <<>>)>>), ADFNode("bulletList", NilAttrs, <<ADFNode("listItem", NilAttrs, <<ADFNode("paragraph", NilAttrs, <<TextNode(<<"c">>, <<>>)>>)>>)>>)>>)>>,
      \* ordered list that starts at 5
      <<ADFNode("orderedList", Attrs([order |-> NumV(5)]), <<ADFNode("listItem", NilAttrs, <<ADFNode("paragraph", NilAttrs, <<TextNode(<<"a">>, <<>>)>>)>>), ADFNode("listItem", NilAttrs, <<ADFNode("paragraph", NilAttrs, <<TextNode(<<"b">>, <<>>)>>)>>)>>)>>,
      \* bullet list with a nested ordered list
      <<ADFNode("bulletList", NilAttrs, <<ADFNode("listItem", NilAttrs, <<ADFNode("paragraph", NilAttrs, <<TextNode(<<"a">>, <<>>)>>), ADFNode("orderedList", NilAttrs, <<ADFNode("listItem", NilAttrs, <<ADFNode("paragraph", NilAttrs, <<TextNode(<<"b">>, <<>>)>>)>>), ADFNode("listItem", NilAttrs, <<ADFNode("paragraph", NilAttrs, <<TextNode(<<"c">>, <<>>)>>)>>)>>)>>)>>)>>,
      \* bold and italic in both orders
      <<ADFNode("paragraph", NilAttrs, <<TextNode(<<"x">>, <<ADFMark("strong", NilAttrs), ADFMark("em", NilAttrs)>>), TextNode(<<" ">>, <<>>), TextNode(<<"y">>, <<ADFMark("em", NilAttrs), ADFMark("strong", NilAttrs)>>)>>)>>,
      \* code, strike and link marks
      <<ADFNode("paragraph", NilAttrs, <<TextNode(<<"x">>, <<ADFMark("link", Attrs([href |-> StrV(<<"u">>)])), ADFMark("strike", NilAttrs), ADFMark("code", NilAttrs)>>)>>)>>,
      \* underline, colour and subscript marks
      <<ADFNode("paragraph", NilAttrs, <<TextNode(<<"x">>, <<ADFMark("underline", NilAttrs), ADFMark("textColor", Attrs([color |-> StrV(<<"r", "e", "d">>)])), ADFMark("subsup", Attrs([type |-> StrV(<<"s", "u", "b">>)]))>>)>>)>>,
      \* code block with a language
      <<ADFNode("codeBlock", Attrs([language |-> StrV(<<"g", "o">>)]), <<TextNode(<<"x", " ", "=", " ", "1">>, <<>>)>>)>>,
      \* block quote
      <<ADFNode("blockquote", NilAttrs, <<ADFNode("paragraph", NilAttrs, <<TextNode(<<"q">>, <<>>)>>)>>)>>,
      \* rule between paragraphs
      <<ADFNode("paragraph", NilAttrs, <<TextNode(<<"a", "b">>, <<>>)>>), ADFNode("rule", NilAttrs, <<>>), ADFNode("paragraph", NilAttrs, <<TextNode(<<"c", "d">>, <<>>)>>)>>,
      \* task list
      <<ADFNode("taskList", NilAttrs, <<ADFNode("taskItem", Attrs([state |-> StrV(<<"D", "O", "N", "E">>)]), <<TextNode(<<"t">>, <<>>)>>), ADFNode("taskItem", Attrs([state |-> StrV(<<"T", "O", "D", "O">>)]), <<TextNode(<<"u">>, <<>>)>>)>>)>>,
      \* mention, emoji and status
      <<ADFNode("paragraph", NilAttrs, <<ADFNode("mention", Attrs([text |-> StrV(<<"@", "b", "o", "b">>), id |-> StrV(<<"1">>)]), <<>>), TextNode(<<" ">>, <<>>), ADFNode("emoji", Attrs([shortName |-> StrV(<<":", "o", "k", ":">>)]), <<>>), TextNode(<<" ">>, <<>>), ADFNode("status", Attrs([text |-> StrV(<<"d", "o", "n", "e">>), color |-> StrV(<<"g", "r", "e", "e", "n">>)]), <<>>)>>)>>,
      \* date and inline card
      <<ADFNode("paragraph", NilAttrs, <<ADFNode("date", Attrs([timestamp |-> StrV(<<"1", "2">>)]), <<>>), TextNode(<<" ">>, <<>>), ADFNode("inlineCard", Attrs([url |-> StrV(<<"u", "/", "p">>)]), <<>>)>>)>>,
      \* hard break inside a paragraph
      <<ADFNode("paragraph", NilAttrs, <<TextNode(<<"a">>, <<>>), ADFNode("hardBreak", NilAttrs, <<>>), TextNode(<<"b">>, <<>>)>>)>>,
      \* text leaf at top level
      <<TextNode(<<"a", "b">>, <<>>)>>,
      \* node without a type
      <<EmptyNode>>,
      \* empty paragraph
      <<ADFNode("paragraph", NilAttrs, <<>>)>>,
      \* empty content
      <<>> }

\* nested lists: at each level a kind, one item that holds the next level and
\* optionally a plain item before it or after it
MaxDepth == 3

ListItem(text, more) ==
    ADFNode("listItem", NilAttrs,
            <<ADFNode("paragraph", NilAttrs, <<TextNode(text, <<>>)>>)>> \o more)

RECURSIVE ListTrees(_)
ListTrees(d) ==
    IF d = 0 THEN {}
    ELSE {ADFNode(kind, NilAttrs,
                  (IF side = "before" THEN <<ListItem(<<"p">> \o Itoa(d), <<>>)>> ELSE <<>>)
                  \o <<ListItem(<<"m">> \o Itoa(d), sub)>>
                  \o (IF side = "after" THEN <<ListItem(<<"q">> \o Itoa(d), <<>>)>> ELSE <<>>)) :
            kind \in {"bulletList", "orderedList"}, side \in {"alone", "before", "after"},
            sub \in {<<>>} \cup {<<t>> : t \in ListTrees(d - 1)}}

\* rows of a table: a header row, a data row, a row with no cell, a child that
\* is no row, and a header row and a data row with cells of several lines
Para(text) == ADFNode("paragraph", NilAttrs, <<TextNode(text, <<>>)>>)
Cell(kind, content) == ADFNode(kind, NilAttrs, content)
RowOf(cells) == ADFNode("tableRow", NilAttrs, cells)

RowPool ==
    { RowOf(<<Cell("tableHeader", <<Para(<<"h">>)>>), Cell("tableHeader", <<Para(<<"k">>)>>)>>),
      RowOf(<<Cell("tableCell", <<Para(<<"c">>)>>), Cell("tableCell", <<Para(<<"d">>)>>)>>),
      RowOf(<<>>),
      Para(<<"n">>),
      RowOf(<<Cell("tableCell", <<Para(<<"c">>)>>),
                 Cell("tableHeader",
                      <<ADFNode("paragraph", NilAttrs,
                                <<TextNode(<<"a">>, <<>>), ADFNode("hardBreak", NilAttrs, <<>>),
                                  TextNode(<<"b">>, <<>>)>>)>>),
                 Cell("tableHeader", <<>>)>>),
      RowOf(<<Cell("tableCell",
                      <<ADFNode("bulletList", NilAttrs,
                                <<ListItem(<<"p">>, <<>>), ListItem(<<"q">>, <<>>)>>)>>)>>) }

\* rows per table
MaxRows == 2

\* the tables of up to MaxRows children and two of three
TablePool ==
    {ADFNode("table", NilAttrs, rs) : rs \in UNION {[1..n -> RowPool] : n \in 0..MaxRows}}
    \cup {ADFNode("table", NilAttrs,
                  <<RowOf(<<Cell("tableCell", <<Para(<<"c">>)>>)>>),
                    RowOf(<<Cell("tableHeader", <<Para(<<"h">>)>>)>>),
                    RowOf(<<Cell("tableCell", <<Para(<<"d">>)>>)>>)>>),
          ADFNode("table", NilAttrs,
                  <<RowOf(<<Cell("tableHeader", <<Para(<<"N", "a", "m", "e">>)>>),
                               Cell("tableHeader", <<Para(<<"A", "g", "e">>)>>)>>),
                    RowOf(<<Cell("tableCell", <<Para(<<"A", "l", "i", "c", "e">>)>>),
                               Cell("tableCell", <<Para(<<"3", "0">>)>>)>>)>>)}

\* documents that hold a node of a kind the serializer does not know
Future(content) == ADFNode("future", NilAttrs, content)

UnknownPool ==
    { <<Future(<<TextNode(<<"h", "e", "l", "l", "o">>, <<>>)>>)>>,
      <<Future(<<>>)>>,
      <<Future(<<TextNode(<<"a">>, <<ADFMark("strong", NilAttrs)>>), TextNode(<<" ", "b">>, <<>>)>>)>>,
      <<Future(<<ADFNode("paragraph", NilAttrs, <<TextNode(<<"x">>, <<>>)>>),
                 ADFNode("paragraph", NilAttrs, <<TextNode(<<"y">>, <<>>)>>)>>)>>,
      <<Future(<<Future(<<TextNode(<<"i", "n">>, <<>>)>>), TextNode(<<"o", "u", "t">>, <<>>)>>)>>,
      <<Future(<<ADFNode("bulletList", NilAttrs,
                         <<ListItem(<<"p">>, <<>>), ListItem(<<"q">>, <<>>)>>)>>)>>,
      <<Future(<<ADFNode("heading", Attrs([level |-> NumV(2)]), <<TextNode(<<"h">>, <<>>)>>),
                 ADFNode("rule", NilAttrs, <<>>)>>)>>,
      <<ADFNode("paragraph", NilAttrs,
                <<TextNode(<<"a">>, <<>>), Future(<<TextNode(<<"b">>, <<>>)>>),
                  TextNode(<<"c">>, <<>>)>>)>>,
      <<ADFNode("paragraph", NilAttrs, <<TextNode(<<"a">>, <<>>)>>),
        Future(<<TextNode(<<"b">>, <<>>)>>),
        ADFNode("paragraph", NilAttrs, <<TextNode(<<"c">>, <<>>)>>)>> }

\* containers around a body, laid out as the serializer writes them
WrapMd(kind, body) ==
    IF kind = "panel"
    THEN <<"<", "d", "i", "v", " ", "d", "a", "t", "a", "-", "p", "a", "n", "e", "l", "=", DQ, "i", "n", "f", "o", DQ, ">", NL, NL>> \o body \o <<NL, NL, "<", "/", "d", "i", "v", ">">>
    ELSE <<"<", "d", "e", "t", "a", "i", "l", "s", ">", NL, "<", "s", "u", "m", "m", "a", "r", "y", ">", "t", "<", "/", "s", "u", "m", "m", "a", "r", "y", ">", NL, NL>> \o body \o <<NL, "<", "/", "d", "e", "t", "a", "i", "l", "s", ">">>

ContainerKinds == {"panel", "expand"}

\* bodies of one or more blocks without a container
PlainBodies ==
    { <<"x">>,
      <<"-", " ", "a", NL, "-", " ", "b">>,
      <<"#", " ", "h", NL, NL, "y">> }

\* bodies that are or that start with a container
ContainerBodies ==
    {WrapMd(kind, b) : kind \in ContainerKinds, b \in PlainBodies}
    \cup {WrapMd(kind, <<"x">>) \o <<NL, NL, "y">> : kind \in ContainerKinds}

NestedBodies == PlainBodies \cup ContainerBodies

\* markup of tables
TableDocs ==
    {
      \* the table of TestMarkdownToADF_Table
      <<"|", " ", "N", "a", "m", "e", " ", "|", " ", "A", "g", "e", " ", "|", NL, "|", " ", "-", "-", "-", " ", "|", " ", "-", "-", "-", " ", "|", NL, "|", " ", "A", "l", "i", "c", "e", " ", "|", " ", "3", "0", " ", "|", NL, "|", " ", "B", "o", "b", " ", "|", " ", "2", "5", " ", "|">>,
      \* alignment colons in the separator and a line of text after the table
      <<"|", " ", "a", " ", "|", " ", "b", " ", "|", NL, "|", "-", "-", "-", "|", ":", "-", ":", "|", NL, "|", " ", "c", " ", "|", " ", "d", " ", "|", NL, "x">>,
      \* a separator before the first row
      <<"|", "-", "-", "-", "|", NL, "|", " ", "a", " ", "|", NL, "|", " ", "b", " ", "|">>,
      \* data lines of dashes
      <<"|", " ", "a", " ", "|", " ", "b", " ", "|", NL, "|", " ", "-", " ", "|", " ", "-", " ", "|", NL, "|", " ", "c", " ", "|", " ", "d", " ", "|", NL, "|", " ", "-", " ", "|", " ", "-", " ", "|", NL, "|", " ", "e", " ", "|", " ", "f", " ", "|">>,
      \* an indented line and lines without the closing pipe
      <<" ", " ", "|", " ", "a", " ", "|", " ", "b", NL, "|", " ", "c">>,
      \* two tables with a blank line between them
      <<"|", " ", "a", " ", "|", NL, NL, "|", " ", "b", " ", "|">>,
      \* a line of empty cells first
      <<"|", " ", " ", "|", " ", " ", "|", NL, "|", " ", "a", " ", "|", " ", "b", " ", "|">>,
      \* separator lines only
      <<"|", "-", "-", "-", "|", NL, "|", ":", "-", ":", "|">>,
      \* an empty first field written without spaces
      <<"|", "a", "|", "b", "|", NL, "|", "-", "|", "-", "|", NL, "|", "|", "c", "|">>,
      \* an empty last field written without spaces
      <<"|", " ", "a", " ", "|", " ", "b", " ", "|", NL, "|", " ", "c", " ", "|", "|">> }

\* markup of panels and expands that are closed and followed by more lines
ClosedContainers ==
    {
      \* an expand with its summary on a line of its own, and a line after it
      <<"<", "d", "e", "t", "a", "i", "l", "s", ">", NL, "<", "s", "u", "m", "m", "a", "r", "y", ">", "t", "<", "/", "s", "u", "m", "m", "a", "r", "y", ">", NL, "x", NL, "<", "/", "d", "e", "t", "a", "i", "l", "s", ">", NL, "y">>,
      \* an expand without a summary, and a line after it
      <<"<", "d", "e", "t", "a", "i", "l", "s", ">", NL, "x", NL, "<", "/", "d", "e", "t", "a", "i", "l", "s", ">", NL, "y">>,
      \* an expand with the summary on the opening line, and two lines after it
      <<"<", "d", "e", "t", "a", "i", "l", "s", ">", "<", "s", "u", "m", "m", "a", "r", "y", ">", "t", "<", "/", "s", "u", "m", "m", "a", "r", "y", ">", NL, "x", NL, "<", "/", "d", "e", "t", "a", "i", "l", "s", ">", NL, "#", " ", "h", NL, "y">>,
      \* an expand without a summary followed by an expand with one
      <<"<", "d", "e", "t", "a", "i", "l", "s", ">", NL, "x", NL, "<", "/", "d", "e", "t", "a", "i", "l", "s", ">", NL, "<", "d", "e", "t", "a", "i", "l", "s", ">", NL, "<", "s", "u", "m", "m", "a", "r", "y", ">", "t", "<", "/", "s", "u", "m", "m", "a", "r", "y", ">", NL, "z", NL, "<", "/", "d", "e", "t", "a", "i", "l", "s", ">">>,
      \* a panel and a line after it
      <<"<", "d", "i", "v", " ", "d", "a", "t", "a", "-", "p", "a", "n", "e", "l", "=", DQ, "i", "n", "f", "o", DQ, ">", NL, "x", NL, "<", "/", "d", "i", "v", ">", NL, "y">>,
      \* a panel after a paragraph, followed by a list
      <<"a", NL, NL, "<", "d", "i", "v", " ", "d", "a", "t", "a", "-", "p", "a", "n", "e", "l", "=", DQ, "n", "o", "t", "e", DQ, ">", NL, "x", NL, NL, "z", NL, "<", "/", "d", "i", "v", ">", NL, "-", " ", "b", NL, "-", " ", "c">>,
      \* an empty panel and an empty expand
      <<"<", "d", "i", "v", " ", "d", "a", "t", "a", "-", "p", "a", "n", "e", "l", "=", DQ, "i", "n", "f", "o", DQ, ">", NL, "<", "/", "d", "i", "v", ">", NL, "<", "d", "e", "t", "a", "i", "l", "s", ">", NL, "<", "s", "u", "m", "m", "a", "r", "y", ">", "t", "<", "/", "s", "u", "m", "m", "a", "r", "y", ">", NL, "<", "/", "d", "e", "t", "a", "i", "l", "s", ">", NL, "y">> }

\* markup of fenced code blocks
FencedDocs ==
    {
      \* markup inside a closed block and a line after it
      <<BQ, BQ, BQ, NL, "*", "*", "b", "*", "*", " ", "*", "i", "*", NL, " ", " ", "-", " ", "x", NL, BQ, BQ, BQ, NL, "y">>,
      \* a block that is never closed, with a blank line in it
      <<BQ, BQ, BQ, "g", "o", NL, "#", " ", "h", NL, NL, "|", " ", "a", " ", "|">>,
      \* an opening fence alone
      <<BQ, BQ, BQ>>,
      \* an empty block
      <<BQ, BQ, BQ, NL, BQ, BQ, BQ, NL, "z">>,
      \* a block after a paragraph, closed by a fence with text after it
      <<"x", NL, BQ, BQ, BQ, "j", "s", NL, BQ, "c", BQ, NL, "~", "~", "~", NL, BQ, BQ, BQ, " ", " ", "z">> }

\* markup of lists and task lists
ListDocs ==
    { \* nested bullets that come back to the first level
      <<"-", " ", "a", NL, " ", " ", "-", " ", "b", NL, " ", " ", " ", " ", "-", " ", "c", NL, " ", " ", "-", " ", "d", NL, "-", " ", "e">>,
      \* ordered items around nested bullets
      <<"1", ".", " ", "a", NL, " ", " ", "-", " ", "b", NL, " ", " ", "-", " ", "c", NL, "2", ".", " ", "d">>,
      \* nested lists of two kinds under one item
      <<"-", " ", "a", NL, " ", " ", "-", " ", "b", NL, " ", " ", "1", ".", " ", "c">>,
      \* a nested item that comes back to a level between the two
      <<"-", " ", "a", NL, " ", " ", " ", " ", "-", " ", "b", NL, " ", " ", "-", " ", "c">>,
      \* an indented list followed by a list that is not
      <<" ", " ", "-", " ", "a", NL, " ", " ", "-", " ", "b", NL, "-", " ", "c">>,
      \* a list followed by text
      <<"-", " ", "a", NL, " ", " ", "-", " ", "b", NL, "x">>,
      \* task items
      <<"-", " ", "[", " ", "]", " ", "t", NL, "-", " ", "[", "x", "]", " ", "u", NL, "-", " ", "[", "X", "]", " ", "v">>,
      \* a task item after a bullet item
      <<"-", " ", "a", NL, "-", " ", "[", " ", "]", " ", "t">>,
      \* a task item nested under a bullet item
      <<"-", " ", "a", NL, " ", " ", "-", " ", "[", "x", "]", " ", "t">>,
      \* a task item after a paragraph
      <<"x", NL, NL, "-", " ", "[", " ", "]", " ", "t">>,
      \* a bullet item after a task item
      <<"-", " ", "[", "x", "]", " ", "t", NL, "-", " ", "a">>,
      \* ordered items whose numbers neither start at 1 nor follow each other
      <<"3", ".", " ", "a", NL, "7", ".", " ", "b", NL, " ", " ", "4", ".", " ", "c", NL, " ", " ", "9", ".", " ", "d">> }

\* marks of the nine kinds that applyMarks renders
MarkKinds ==
    {"code", "subsup", "strike", "underline", "textColor", "border", "em", "strong", "link"}

MarkOf(kind) ==
    CASE kind = "subsup" -> ADFMark(kind, Attrs([type |-> StrV(<<"s", "u", "b">>)]))
      [] kind = "textColor" -> ADFMark(kind, Attrs([color |-> StrV(<<"r", "e", "d">>)]))
      [] kind = "border" -> ADFMark(kind, Attrs([color |-> StrV(<<"r", "e", "d">>)]))
      [] kind = "link" -> ADFMark(kind, Attrs([href |-> StrV(<<"u">>)]))
      [] OTHER -> ADFMark(kind, NilAttrs)

\* marks on one text leaf
MaxMarks == 2

\* the arrays of distinct kinds of up to MaxMarks marks, in every order, and
\* all nine kinds in two orders
KindArrays ==
    {ks \in UNION {[1..n -> MarkKinds] : n \in 0..MaxMarks} :
        \A a, b \in DOMAIN ks : a # b => ks[a] # ks[b]}
    \cup {<<"code", "subsup", "strike", "underline", "textColor", "border", "em", "strong", "link">>,
          <<"link", "strong", "em", "border", "textColor", "underline", "strike", "subsup", "code">>}

\* raw inputs of ADFToMarkdown: absent, null, malformed, and well-formed JSON
\* that is or is not shaped like a Document
JsonPool ==
    { RawEmpty, RawNull, RawMalformed,
      RawOf(JNull),
      RawOf(JStr(<<"h", "i">>)),
      RawOf(JNum(5)),
      RawOf(JArr(<<>>)),
      RawOf(JObj(<<>>)),
      RawOf(JObj([type |-> JNum(5)])),
      RawOf(JObj([type |-> JStr("doc"), version |-> JStr(<<"1">>)])),
      RawOf(JObj([type |-> JStr("doc"), version |-> JFrac(1)])),
      RawOf(JObj([type |-> JStr("doc"), version |-> JNum(1), content |-> JNull])),
      RawOf(JObj([type |-> JStr("doc"), version |-> JNum(1), content |-> JStr(<<"x">>)])),
      RawOf(JObj([type |-> JStr("doc"), version |-> JNum(1), content |-> JObj(<<>>)])),
      RawOf(JObj([content |-> JArr(<<JNum(5)>>)])),
      RawOf(JObj([content |-> JArr(<<JNull>>)])),
      RawOf(JObj([content |-> JArr(<<JObj([type |-> JStr("text"), text |-> JNum(5)])>>)])),
      RawOf(JObj([content |-> JArr(<<JObj([type |-> JStr("text"), marks |-> JStr(<<"b">>)])>>)])),
      RawOf(JObj([content |-> JArr(<<JObj([type |-> JStr("text"), marks |-> JArr(<<JNum(1)>>)])>>)])),
      RawOf(JObj([content |-> JArr(<<JObj([type |-> JStr("heading"), attrs |-> JArr(<<>>)])>>)])),
      RawOf(JObj([content |-> JArr(<<JObj([type |-> JStr("paragraph"),
                                           content |-> JArr(<<JObj([type |-> JStr("text"),
                                                                    text |-> JStr(<<"o", "k">>)])>>)])>>)])) }

DocOf(content) == RawOf(Marshal([NewDoc EXCEPT !.content = content]))

\* the markdown inputs made of 1..MaxBlocks pool entries
MdDocs(pool, sep) ==
    {Join(ss, sep) : ss \in UNION {[1..n -> pool] : n \in 1..MaxBlocks}}

MdInput(class, md) == [class |-> class, md |-> md, raw |-> RawEmpty]

\* a Document of one paragraph of one text leaf with marks of the kinds
MarkedDoc(ks) ==
    DocOf(<<ADFNode("paragraph", NilAttrs,
                    <<TextNode(<<"x">>, [k \in DOMAIN ks |-> MarkOf(ks[k])])>>)>>)

JsonInput(class, raw) == [class |-> class, md |-> <<>>, raw |-> raw]

InputClasses == {"empty", "lines", "canonical", "nested", "listdocs", "lists", "trees", "tabledocs", "fenced", "closed",
                 "unknown", "marks", "tables", "json"}

Inputs(class) ==
    CASE class = "empty" -> {MdInput("lines", <<>>)}
      [] class = "lines" -> {MdInput("lines", m) : m \in MdDocs(LinePool, <<NL>>)}
      [] class = "canonical" -> {MdInput("canonical", m) : m \in MdDocs(CanonPool, <<NL, NL>>)}
      [] class = "nested" ->
            {MdInput("nested", WrapMd(kind, b)) : kind \in ContainerKinds, b \in NestedBodies}
      [] class = "listdocs" -> {MdInput("listdocs", m) : m \in ListDocs}
      [] class = "fenced" -> {MdInput("fenced", m) : m \in FencedDocs}
      [] class = "closed" -> {MdInput("closed", m) : m \in ClosedContainers}
      [] class = "tabledocs" -> {MdInput("tabledocs", m) : m \in TableDocs}
      [] class = "lists" ->
            {JsonInput("lists", DocOf(<<t>>)) : t \in UNION {ListTrees(d) : d \in 1..MaxDepth}}
      [] class = "trees" -> {JsonInput("trees", DocOf(c)) : c \in TreePool}
      [] class = "marks" -> {JsonInput("marks", MarkedDoc(ks)) : ks \in KindArrays}
      [] class = "tables" -> {JsonInput("tables", DocOf(<<t>>)) : t \in TablePool}
      [] class = "unknown" -> {JsonInput("unknown", DocOf(c)) : c \in UnknownPool}
      [] OTHER -> {JsonInput("json", r) : r \in JsonPool}

MdClasses == {"lines", "canonical", "nested", "listdocs", "tabledocs", "fenced", "closed"}

\* issues in the project
NumIssues == 2
\* edits made by hand, in Jira and in the local files together
MaxEdits == 3
\* runs of Push
MaxPushes == 2
\* comments on one issue
MaxComments == 1

JiraKey(k) == <<"P", "-">> \o Itoa(k)
Titles == {<<"a">>, <<"a", "|", "b">>}
Descriptions == {<<"b", "|", "c">>, <<"c">>}
Assignees == {<<"x">>, <<"y">>}
LabelLists == {<<>>, << <<"x">>, <<"y">> >>, << <<"y">>, <<"x">> >>}

\* the issue as it stands in Jira when it is first pulled
FirstIssue(k) ==
    [JiraKey |-> JiraKey(k), Title |-> <<"a">>, Description |-> <<"b", "|", "c">>,
     Status |-> StatusOpen, Assignee |-> <<"x">>, Labels |-> <<>>, Comments |-> <<>>,
     Hash |-> <<>>]

NoPush ==
    [pc |-> "idle", queue |-> <<>>, Scanned |-> 0, Pushed |-> 0, Skipped |-> 0,
     Conflicts |-> <<>>, Errors |-> 0, err |-> "none", runs |-> 0]

\* every issue has just been pulled: storage.go 59-62 saves it with its hash
InitPush ==
    /\ remote = [k \in 1..NumIssues |-> FirstIssue(k)]
    /\ local = [k \in 1..NumIssues |->
                  [FirstIssue(k) EXCEPT !.Hash = ComputeHash(FirstIssue(k))]]
    /\ pulled = [k \in 1..NumIssues |-> FirstIssue(k)]
    /\ push = NoPush
    /\ api = <<>>
    /\ edits = 0

\* no call of parseInlineContent is under way
NoInline == [text |-> <<>>, remaining |-> <<>>, nodes |-> <<>>, spans |-> <<>>, pc |-> "idle"]

InitInline == inline = NoInline

NoAttachments == [lines |-> <<>>, k |-> 1, Attachments |-> <<>>, pc |-> "idle"]

InitAtt == att = NoAttachments

NoStore == [issue |-> <<>>, front |-> <<>>, body |-> <<>>, read |-> <<>>, pc |-> "idle"]

InitStore == store = NoStore

NoPull == [jira |-> <<>>, files |-> {}, pc |-> "idle", token |-> 0, allIssues |-> <<>>,
           made |-> 0, runs |-> 0]

InitPullIdle == pull = NoPull

NoProjects == [id \in {} |-> <<>>]

NoRegistry == [Projects |-> NoProjects, file |-> NoProjects, op |-> "New", id |-> "", err |-> ""]

InitRegIdle == reg = NoRegistry

\* no socket file, no PID file, no process
NoDaemons == [socket |-> {}, pidFile |-> {}, procs |-> <<>>]

InitDaemonIdle == daemon = NoDaemons

InitConv ==
    /\ hist = <<>>
    /\ pc = "idle"
    /\ lines = <<>>
    /\ i = 1
    /\ doc = NewDoc

Init ==
    /\ \E class \in InputClasses : input \in Inputs(class)
    /\ InitConv
    /\ InitPush
    /\ InitInline
    /\ InitAtt
    /\ InitStore
    /\ InitPullIdle
    /\ InitRegIdle
    /\ InitDaemonIdle

\* the value the next conversion takes and the direction it goes
Last == hist[Len(hist)]
CurMd == IF hist = <<>> THEN input.md ELSE Last.md
CurRaw == IF hist = <<>> THEN input.raw ELSE Last.raw
ToMarkdownNext ==
    IF hist = <<>> THEN input.class \notin MdClasses ELSE Last.op = "MarkdownToADF"

Call(op, md, raw, err, panic) ==
    [op |-> op, md |-> md, raw |-> raw, err |-> err, panic |-> panic]

\* a call of ADFToMarkdown: it returns markup, returns an error, or panics
Returned(r) ==
    /\ hist' = Append(hist, Call("ADFToMarkdown", r.md, CurRaw, r.err, r.panic))
    /\ pc' = IF r.panic THEN "panicked" ELSE IF r.err THEN "error" ELSE "idle"

CallADFToMarkdown ==
    /\ pc = "idle"
    /\ Len(hist) < MaxConv
    /\ ToMarkdownNext
    /\ Returned(ADFToMarkdown(CurRaw))
    /\ UNCHANGED <<input, lines, i, doc>>
    /\ UNCHANGED pushVars
    /\ UNCHANGED inlVars
    /\ UNCHANGED attVars
    /\ UNCHANGED storeVars
    /\ UNCHANGED pullVars
    /\ UNCHANGED regVars
    /\ UNCHANGED daemonVars

\* adf.go 679-693: the empty string returns at once, any other input is split
\* into lines and enters the block loop
MarkdownToADFEnter ==
    /\ pc = "idle"
    /\ Len(hist) < MaxConv
    /\ ~ToMarkdownNext
    /\ IF CurMd = <<>>
       THEN /\ hist' = Append(hist, Call("MarkdownToADF", CurMd, RawOf(EmptyDocJSON), FALSE, FALSE))
            /\ UNCHANGED <<pc, lines, i, doc>>
       ELSE /\ pc' = "parsing"
            /\ lines' = Split(CurMd, <<NL>>)
            /\ i' = 1
            /\ doc' = NewDoc
            /\ UNCHANGED hist
    /\ UNCHANGED input
    /\ UNCHANGED pushVars
    /\ UNCHANGED inlVars
    /\ UNCHANGED attVars
    /\ UNCHANGED storeVars
    /\ UNCHANGED pullVars
    /\ UNCHANGED regVars
    /\ UNCHANGED daemonVars

\* adf.go 693-799: one iteration of the block loop. A sub-parse that reports 0
\* lines leaves the cursor where it is while its node is appended; a nested
\* parse that never returns leaves the call hung
Iterate(st) ==
    IF st.hung
    THEN /\ pc' = "hung"
         /\ UNCHANGED <<i, doc>>
    ELSE /\ st.consumed > 0 \/ Len(doc.content) < MaxNodes
         /\ i' = i + st.consumed
         /\ doc' = IF st.append
                   THEN [doc EXCEPT !.content = Append(@, st.node)]
                   ELSE doc
         /\ UNCHANGED pc

MarkdownToADFLoop ==
    /\ pc = "parsing"
    /\ i <= Len(lines)
    /\ Iterate(BlockStep(lines, i))
    /\ UNCHANGED <<input, hist, lines>>
    /\ UNCHANGED pushVars
    /\ UNCHANGED inlVars
    /\ UNCHANGED attVars
    /\ UNCHANGED storeVars
    /\ UNCHANGED pullVars
    /\ UNCHANGED regVars
    /\ UNCHANGED daemonVars

\* adf.go 801: the loop is over and the Document is marshalled
MarkdownToADFReturn ==
    /\ pc = "parsing"
    /\ i > Len(lines)
    /\ hist' = Append(hist, Call("MarkdownToADF", CurMd, RawOf(Marshal(doc)), FALSE, FALSE))
    /\ pc' = "idle"
    /\ lines' = <<>>
    /\ i' = 1
    /\ doc' = NewDoc
    /\ UNCHANGED input
    /\ UNCHANGED pushVars
    /\ UNCHANGED inlVars
    /\ UNCHANGED attVars
    /\ UNCHANGED storeVars
    /\ UNCHANGED pullVars
    /\ UNCHANGED regVars
    /\ UNCHANGED daemonVars

Next ==
    \/ CallADFToMarkdown
    \/ MarkdownToADFEnter
    \/ MarkdownToADFLoop
    \/ MarkdownToADFReturn

Spec == Init /\ [][Next]_vars

(***************************************************************************)
(* Push as a state machine: issues are edited in Jira and in the local     *)
(* files, and Push takes one local issue per iteration of its loop         *)
(***************************************************************************)
\* the values an edit by who can give to a field of an issue
EditValues(issue, field, who) ==
    CASE field = "Title" -> Titles
      [] field = "Description" -> Descriptions
      [] field = "Status" -> IF who = Me THEN {StatusOpen, StatusDone, StatusOdd}
                             ELSE WorkflowStatuses
      [] field = "Assignee" -> Assignees
      [] field = "Labels" -> LabelLists
      [] OTHER -> IF Len(issue.Comments) < MaxComments
                  THEN {Append(issue.Comments, [Author |-> who, Body |-> <<"m">>])}
                  ELSE {}

\* somebody changes a field of an issue in Jira
RemoteEdit ==
    /\ edits < MaxEdits
    /\ \E k \in 1..NumIssues :
         \E field \in {"Title", "Description", "Status", "Assignee", "Labels", "Comments"} :
           \E v \in EditValues(remote[k], field, <<"y">>) :
              /\ v # remote[k][field]
              /\ remote' = [remote EXCEPT ![k][field] = v]
    /\ edits' = edits + 1
    /\ UNCHANGED <<local, pulled, push, api>>
    /\ UNCHANGED convVars
    /\ UNCHANGED inlVars
    /\ UNCHANGED attVars
    /\ UNCHANGED storeVars
    /\ UNCHANGED pullVars
    /\ UNCHANGED regVars
    /\ UNCHANGED daemonVars

\* the user changes a field of a local issue file; the hash line stays
LocalEdit ==
    /\ edits < MaxEdits
    /\ push.pc # "running"
    /\ \E k \in 1..NumIssues :
         \E field \in {"Title", "Description", "Status", "Labels", "Comments"} :
           \E v \in EditValues(local[k], field, Me) :
              /\ v # local[k][field]
              /\ local' = [local EXCEPT ![k][field] = v]
    /\ edits' = edits + 1
    /\ UNCHANGED <<remote, pulled, push, api>>
    /\ UNCHANGED convVars
    /\ UNCHANGED inlVars
    /\ UNCHANGED attVars
    /\ UNCHANGED storeVars
    /\ UNCHANGED pullVars
    /\ UNCHANGED regVars
    /\ UNCHANGED daemonVars

\* part_010 213-246: the issues to process, one (issueKey > 0) or all
PushStart ==
    /\ push.pc # "running"
    /\ push.runs < MaxPushes
    /\ \E issueKey \in 0..NumIssues :
         push' = [NoPush EXCEPT !.pc = "running",
                                !.queue = IF issueKey = 0 THEN [k \in 1..NumIssues |-> k]
                                          ELSE <<issueKey>>,
                                !.Scanned = IF issueKey = 0 THEN NumIssues ELSE 1,
                                !.runs = push.runs + 1]
    /\ UNCHANGED <<remote, local, pulled, api, edits>>
    /\ UNCHANGED convVars
    /\ UNCHANGED inlVars
    /\ UNCHANGED attVars
    /\ UNCHANGED storeVars
    /\ UNCHANGED pullVars
    /\ UNCHANGED regVars
    /\ UNCHANGED daemonVars

Tally(field) == [push EXCEPT ![field] = @ + 1, !.queue = Tail(@)]

\* part_010 293-300: pushIssue has run for issue k with result r
Pushed(k, r) ==
    /\ remote' = [remote EXCEPT ![k] = r.remote]
    /\ local' = [local EXCEPT ![k] = r.local]
    /\ pulled' = IF r.saved THEN [pulled EXCEPT ![k] = r.remote] ELSE pulled
    /\ api' = api \o [j \in 1..Len(r.calls) |-> [op |-> r.calls[j], key |-> k]]
    /\ push' = Tally(IF r.err THEN "Errors" ELSE "Pushed")

\* part_010 249-300: one iteration of the loop over the local issues
PushIssueAt(k, fetched, fail) ==
    IF ComputeHash(local[k]) = local[k].Hash
    THEN push' = Tally("Skipped") /\ UNCHANGED <<remote, local, pulled, api>>
    ELSE IF ~fetched
    THEN push' = Tally("Errors") /\ UNCHANGED <<remote, local, pulled, api>>
    ELSE IF ComputeHash(remote[k]) # local[k].Hash
    THEN /\ push' = [push EXCEPT !.Conflicts = Append(@, k), !.queue = Tail(@)]
         /\ UNCHANGED <<remote, local, pulled, api>>
    ELSE Pushed(k, pushIssue(local[k], remote[k], fail))

PushLoop ==
    /\ push.pc = "running"
    /\ push.queue # <<>>
    /\ \E fetched \in BOOLEAN, fail \in Failures : PushIssueAt(Head(push.queue), fetched, fail)
    /\ UNCHANGED edits
    /\ UNCHANGED convVars
    /\ UNCHANGED inlVars
    /\ UNCHANGED attVars
    /\ UNCHANGED storeVars
    /\ UNCHANGED pullVars
    /\ UNCHANGED regVars
    /\ UNCHANGED daemonVars

\* part_010 302-310: conflicts make the run return an error
PushReturn ==
    /\ push.pc = "running"
    /\ push.queue = <<>>
    /\ push' = [push EXCEPT !.pc = "done",
                            !.err = IF Len(push.Conflicts) > 0 THEN "conflict" ELSE "none"]
    /\ UNCHANGED <<remote, local, pulled, api, edits>>
    /\ UNCHANGED convVars
    /\ UNCHANGED inlVars
    /\ UNCHANGED attVars
    /\ UNCHANGED storeVars
    /\ UNCHANGED pullVars
    /\ UNCHANGED regVars
    /\ UNCHANGED daemonVars

NextPush ==
    \/ RemoteEdit
    \/ LocalEdit
    \/ PushStart
    \/ PushLoop
    \/ PushReturn

\* the converters stand idle while Push runs
InitIdle ==
    /\ input = MdInput("lines", <<>>)
    /\ InitConv
    /\ InitPush
    /\ InitInline
    /\ InitAtt
    /\ InitStore
    /\ InitPullIdle
    /\ InitRegIdle
    /\ InitDaemonIdle

SpecPush == InitIdle /\ [][NextPush]_vars




(***************************************************************************)
(* parseInlineContent as a state machine: one iteration of its loop at a   *)
(* time                                                                    *)
(***************************************************************************)
\* pieces of inline text: plain text, closed constructs and openers that are
\* never closed
InlineFrags ==
    { <<"a", "b">>,
      <<" ">>,
      <<"*", "*", "b", "*", "*">>,
      <<"*", "i", "*">>,
      <<BQ, "c", BQ>>,
      <<"~", "~", "s", "~", "~">>,
      <<"[", "t", "]", "(", "u", ")">>,
      <<"!", "[", "p", "]", "(", "u", ")">>,
      <<"_", "_", "b", "_", "_">>,
      <<"_", "i", "_">>,
      <<"@", "b", "o", "b">>,
      <<":", "o", "k", ":">>,
      <<"<", "u", ">", "x", "<", "/", "u", ">">>,
      <<"<", "s", "u", "b", ">", "2", "<", "/", "s", "u", "b", ">">>,
      <<"*", "*">>,
      <<"*">>,
      <<"_">>,
      <<BQ>>,
      <<"[", "t", "]", "(">>,
      <<"~", "~">>,
      <<"@">>,
      <<":">>,
      <<"<", "u", ">", "x">>,
      <<"<", "s", "p", "a", "n", " ", "d", "a", "t", "a", "-", "s", "t", "a", "t", "u", "s", "=", DQ, "g", DQ, ">", "o", "k", "<", "/", "s", "p", "a", "n", ">">> }

\* pieces per inline text
MaxInline == 2

InlineTexts == {Concat(ss) : ss \in UNION {[1..n -> InlineFrags] : n \in 0..MaxInline}}

InitTok ==
    /\ inline \in {[NoInline EXCEPT !.text = t, !.remaining = t, !.pc = "loop"] : t \in InlineTexts}
    /\ input = MdInput("lines", <<>>)
    /\ InitConv
    /\ InitPush
    /\ InitAtt
    /\ InitStore
    /\ InitPullIdle
    /\ InitRegIdle
    /\ InitDaemonIdle

\* what follows the first group of the match, counted from where the match starts
InlineRestAfterGroup(remaining, m) ==
    Slice(remaining, m.from + Len(Group(remaining, m, 1)), Len(remaining) + 1)

\* adf.go 1272: what follows the match
InlineRest(remaining, m) == Slice(remaining, m.to, Len(remaining) + 1)

\* adf.go 1125-1272: no pattern matches and the rest is one text leaf, or the
\* text before the earliest match and the node of the match are appended
InlineEmit(st, earliest) ==
    IF earliest.e = 0
    THEN [st EXCEPT !.nodes = Append(@, TextNode(st.remaining, <<>>)),
                    !.spans = Append(@, st.remaining),
                    !.pc = "done"]
    ELSE [st EXCEPT
            !.nodes = @ \o (IF earliest.m.from > 1
                            THEN <<TextNode(Slice(st.remaining, 1, earliest.m.from), <<>>)>>
                            ELSE <<>>)
                        \o <<InlineNode(patterns[earliest.e], st.remaining, earliest.m)>>,
            !.spans = @ \o (IF earliest.m.from > 1
                            THEN <<Slice(st.remaining, 1, earliest.m.from)>> ELSE <<>>)
                        \o <<Slice(st.remaining, earliest.m.from, earliest.m.to)>>,
            !.remaining = InlineRest(st.remaining, earliest.m)]

\* adf.go 1101: one iteration of the loop
InlineIterate ==
    /\ inline.pc = "loop"
    /\ inline.remaining # <<>>
    /\ inline' = InlineEmit(inline, EarliestPattern(patterns, inline.remaining))
    /\ UNCHANGED convVars
    /\ UNCHANGED pushVars
    /\ UNCHANGED attVars
    /\ UNCHANGED storeVars
    /\ UNCHANGED pullVars
    /\ UNCHANGED regVars
    /\ UNCHANGED daemonVars

\* adf.go 1101, 1277: the text is used up and the nodes are returned
InlineReturn ==
    /\ inline.pc = "loop"
    /\ inline.remaining = <<>>
    /\ inline' = [inline EXCEPT !.pc = "done"]
    /\ UNCHANGED convVars
    /\ UNCHANGED pushVars
    /\ UNCHANGED attVars
    /\ UNCHANGED storeVars
    /\ UNCHANGED pullVars
    /\ UNCHANGED regVars
    /\ UNCHANGED daemonVars

NextTok ==
    \/ InlineIterate
    \/ InlineReturn

SpecTok == InitTok /\ [][NextTok]_vars

(***************************************************************************)
(* Storage.parseAttachments: one line of the section at a time             *)
(***************************************************************************)
RECURSIVE findMatchingParenFrom(_, _, _)
\* storage.go 426-439: the position of the parenthesis that closes the one
\* before start, 0 when there is none
findMatchingParenFrom(s, p, depth) ==
    IF p > Len(s) THEN 0
    ELSE IF s[p] = "(" THEN findMatchingParenFrom(s, p + 1, depth + 1)
    ELSE IF s[p] = ")"
         THEN (IF depth = 1 THEN p ELSE findMatchingParenFrom(s, p + 1, depth - 1))
    ELSE findMatchingParenFrom(s, p + 1, depth)

findMatchingParen(s, start) == findMatchingParenFrom(s, start, 1)

NoAttachment == <<>>
Attachment(filename, url) == <<[Filename |-> filename, URL |-> url]>>

\* storage.go 400-418: the URL from urlStart to the matching parenthesis
AttachmentURL(line, filename, urlStart, urlEnd) ==
    IF urlEnd = 0 THEN NoAttachment
    ELSE IF Slice(line, urlStart, urlEnd) = <<>> THEN NoAttachment
    ELSE Attachment(filename, Slice(line, urlStart, urlEnd))

\* storage.go 383-398: the file name between the first [ and the first ] after
\* it, which "(" must follow with something after it
AttachmentName(line, filenameStart, filenameEnd) ==
    IF filenameEnd = 0 THEN NoAttachment
    ELSE IF filenameEnd + 1 >= Len(line) \/ ~HasPrefixAt(line, filenameEnd, <<"]", "(">>)
    THEN NoAttachment
    ELSE AttachmentURL(line, Slice(line, filenameStart + 1, filenameEnd),
                       filenameEnd + 2, findMatchingParen(line, filenameEnd + 2))

\* storage.go 372-375: the prefixes of a line that is looked at
AttachmentPrefixes == {<<"-", " ", "[">>, <<"-", " ", " ", " ", " ", "[">>}

\* storage.go 371-420: what one line of the section adds to the attachments
AttachmentOfTrimmed(line) ==
    IF \A pre \in AttachmentPrefixes : ~HasPrefix(line, pre) THEN NoAttachment
    ELSE AttachmentName(line, IndexFrom(line, <<"[">>, 1),
                        IndexFrom(line, <<"]">>, IndexFrom(line, <<"[">>, 1)))

AttachmentOf(line) == AttachmentOfTrimmed(TrimSpace(line))

\* lines of an attachments section
AttachmentLines ==
    { <<"-", " ", "[", "f", "]", "(", "u", ")">>,
      <<"-", " ", " ", " ", " ", "[", "f", "]", "(", "u", ")">>,
      <<"-", " ", " ", "[", "f", "]", "(", "u", ")">>,
      <<"-", " ", "[", "f", "]", "(", "a", "(", "b", ")", "c", ")">>,
      <<"-", " ", "[", "g", "]", "(", "a", "(", "b", "(", "c", ")", ")", "d", ")", " ", "(", "2", " ", "b", "y", "t", "e", "s", ",", " ", "t", ")">>,
      <<"-", " ", "[", "f", "]", "(", ")">>,
      <<"-", " ", "[", "]", "(", "u", ")">>,
      <<"[", "f", "]", "(", "u", ")">>,
      <<"-", " ", "[", "f", "]", "(", "a", "(", "b">>,
      <<" ", " ", "-", " ", "[", "g", "]", "(", "v", ")", " ", " ">>,
      <<>>,
      <<"-", " ", "[", "f", "]", " ", "(", "u", ")">>,
      <<"-", " ", "f">>,
      <<"-", "[", "f", "]", "(", "u", ")">>,
      <<"-", " ", "[", "f", "]", "(", "u">>,
      <<"-", " ", "[", "f", "]", "(">>,
      <<"-", " ", "[", "f">>,
      <<"*", " ", "[", "f", "]", "(", "u", ")">> }

\* lines per section
MaxAttLines == 2

InitAttachments ==
    /\ att \in {[NoAttachments EXCEPT !.lines = ls, !.pc = "loop"] :
                  ls \in UNION {[1..n -> AttachmentLines] : n \in 1..MaxAttLines}}
    /\ input = MdInput("lines", <<>>)
    /\ InitConv
    /\ InitPush
    /\ InitInline
    /\ InitStore
    /\ InitPullIdle
    /\ InitRegIdle
    /\ InitDaemonIdle

\* storage.go 371: one iteration of the loop over the lines
ParseAttachmentsLine ==
    /\ att.pc = "loop"
    /\ att.k <= Len(att.lines)
    /\ att' = [att EXCEPT !.Attachments = @ \o AttachmentOf(att.lines[att.k]),
                           !.k = @ + 1]
    /\ UNCHANGED convVars
    /\ UNCHANGED pushVars
    /\ UNCHANGED inlVars
    /\ UNCHANGED storeVars
    /\ UNCHANGED pullVars
    /\ UNCHANGED regVars
    /\ UNCHANGED daemonVars

\* storage.go 371, 421: the lines are used up
ParseAttachmentsReturn ==
    /\ att.pc = "loop"
    /\ att.k > Len(att.lines)
    /\ att' = [att EXCEPT !.pc = "done"]
    /\ UNCHANGED convVars
    /\ UNCHANGED pushVars
    /\ UNCHANGED inlVars
    /\ UNCHANGED storeVars
    /\ UNCHANGED pullVars
    /\ UNCHANGED regVars
    /\ UNCHANGED daemonVars

NextAttachments ==
    \/ ParseAttachmentsLine
    \/ ParseAttachmentsReturn

SpecAttachments == InitAttachments /\ [][NextAttachments]_vars

(***************************************************************************)
(* Storage.SaveIssue, Storage.ReadIssue and the hash test of Push on one   *)
(* issue file                                                              *)
(***************************************************************************)
\* time.Time values are one instant, written in RFC 3339
Instant == <<"T">>

SectionRule(n) == Repeat(<<"=">>, n) \o <<NL, NL>>

\* storage.go 508-546: the body that issueToMarkdown writes after the front
\* matter: the description, the comments and the attachments, each under a
\* setext heading
CommentText(c) ==
    <<"#", "#", " ", "C", "o", "m", "m", "e", "n", "t", " ", "b", "y", " ">> \o c.Author \o <<" ", "a", "t", " ">> \o Instant \o <<NL, NL>>
    \o c.Body \o <<NL, NL>>
AttachmentText(a) ==
    <<"-", " ", "[">> \o a.Filename \o <<"]", "(">> \o a.URL \o <<")", " ", "(", "0", " ", "b", "y", "t", "e", "s", ",", " ">>
    \o Instant \o <<")", NL>>
issueBody(issue) ==
    <<NL>> \o <<"D", "e", "s", "c", "r", "i", "p", "t", "i", "o", "n">> \o <<NL>> \o SectionRule(11)
    \o (IF issue.Description # <<>> THEN issue.Description \o <<NL, NL>> ELSE <<>>)
    \o (IF Len(issue.Comments) > 0
        THEN <<"C", "o", "m", "m", "e", "n", "t", "s">> \o <<NL>> \o SectionRule(8)
             \o Concat([k \in 1..Len(issue.Comments) |-> CommentText(issue.Comments[k])])
        ELSE <<>>)
    \o (IF Len(issue.Attachments) > 0
        THEN <<"A", "t", "t", "a", "c", "h", "m", "e", "n", "t", "s">> \o <<NL>> \o SectionRule(11)
             \o Concat([k \in 1..Len(issue.Attachments) |-> AttachmentText(issue.Attachments[k])])
             \o <<NL>>
        ELSE <<>>)

\* storage.go 484-503: the fields of the front matter; the labels are written
\* sorted. yaml.v3 is taken to give back the strings it was given
issueFront(issue) ==
    [JiraKey |-> issue.JiraKey, Title |-> issue.Title, Status |-> issue.Status,
     Assignee |-> issue.Assignee, Labels |-> normalizeLabels(issue.Labels),
     Hash |-> issue.Hash]

\* storage.go 321-332
isAllChars(s, ch) ==
    /\ TrimSpace(s) # <<>>
    /\ \A k \in 1..Len(TrimSpace(s)) : TrimSpace(s)[k] = ch

\* storage.go 348-363: the comment of one piece of the section, none when the
\* piece has no second line or its first line has no " at "
CommentOfHeader(header, body) ==
    IF IndexFrom(header, <<" ", "a", "t", " ">>, 1) = 0 THEN <<>>
    ELSE <<[Author |-> Slice(header, 1, IndexFrom(header, <<" ", "a", "t", " ">>, 1)), Body |-> body]>>
CommentOfPiece(cs) ==
    IF cs = <<>> \/ IndexFrom(cs, <<NL>>, 1) = 0 THEN <<>>
    ELSE CommentOfHeader(Slice(cs, 1, IndexFrom(cs, <<NL>>, 1)),
                         TrimSpace(Slice(cs, IndexFrom(cs, <<NL>>, 1) + 1, Len(cs) + 1)))

\* storage.go 335-364: the section is split at the comment markers
CommentPieces(content) == Split(content, <<NL>> \o <<"#", "#", " ", "C", "o", "m", "m", "e", "n", "t", " ", "b", "y", " ">>)
parseComments(content) ==
    Concat([k \in 1..Len(CommentPieces(content)) |->
              CommentOfPiece(TrimSpace(CommentPieces(content)[k]))])

\* storage.go 369-421 on a whole section
AttachmentLinesOf(content) == Split(content, <<NL>>)
parseAttachments(content) ==
    Concat([k \in 1..Len(AttachmentLinesOf(content)) |->
              AttachmentOf(AttachmentLinesOf(content)[k])])

\* storage.go 270-281: the buffer goes to the section that is open
flush(issue, sec, t) ==
    CASE sec = <<"D", "e", "s", "c", "r", "i", "p", "t", "i", "o", "n">> -> [issue EXCEPT !.Description = t]
      [] sec = <<"C", "o", "m", "m", "e", "n", "t", "s">> -> [issue EXCEPT !.Comments = @ \o parseComments(t)]
      [] sec = <<"A", "t", "t", "a", "c", "h", "m", "e", "n", "t", "s">> -> [issue EXCEPT !.Attachments = @ \o parseAttachments(t)]
      [] OTHER -> issue

\* storage.go 283-307: a line above a line of = or of - opens a section, any
\* other line goes to the buffer
RECURSIVE parseBodyLoop(_, _, _, _, _)
parseBodyLoop(issue, ls, j, sec, buf) ==
    IF j > Len(ls) THEN flush(issue, sec, TrimSpace(buf))
    ELSE IF /\ j + 1 <= Len(ls)
            /\ Len(ls[j + 1]) > 0
            /\ (isAllChars(ls[j + 1], "=") \/ isAllChars(ls[j + 1], "-"))
    THEN parseBodyLoop(flush(issue, sec, TrimSpace(buf)), ls, j + 2, TrimSpace(ls[j]), <<>>)
    ELSE parseBodyLoop(issue, ls, j + 1, sec, buf \o ls[j] \o <<NL>>)

parseBody(issue, body) == parseBodyLoop(issue, Split(body, <<NL>>), 1, <<>>, <<>>)

\* storage.go 240-262: the fields of the front matter and the sections of the
\* body
parseMarkdown(front, body) ==
    parseBody([JiraKey |-> front.JiraKey, Title |-> front.Title, Description |-> <<>>,
               Status |-> front.Status, Assignee |-> front.Assignee,
               Labels |-> front.Labels, Comments |-> <<>>, Attachments |-> <<>>,
               Hash |-> front.Hash],
              body)

\* descriptions and comments of the issues that are saved
StoredDescriptions ==
    { <<>>,
      <<"x">>,
      <<"a", NL, NL, "b">>,
      <<" ", "x">>,
      <<"x", NL>>,
      <<"a", NL, NL, "-", "-", "-", NL, NL, "b">>,
      <<"N", "o", "t", "e", "s", NL, "-", "-", "-", "-", "-", NL, "b">>,
      <<"#", " ", "h", NL, NL, "-", " ", "a", NL, "-", " ", "b">>,
      <<"a", NL, "=", "=", "=">>,
      <<"|", " ", "a", " ", "|", NL, "|", " ", "-", "-", "-", " ", "|", NL, "|", " ", "b", " ", "|">> }
StoredComments ==
    { <<>>,
      <<[Author |-> <<"a">>, Body |-> <<"h", "i">>]>>,
      <<[Author |-> <<"a">>, Body |-> <<"h", "i">>], [Author |-> <<"b">>, Body |-> <<"y", "o">>]>>,
      <<[Author |-> <<"a">>, Body |-> <<"x", NL, NL, "y">>]>>,
      <<[Author |-> <<"a">>, Body |-> <<" ", "x">>]>>,
      <<[Author |-> <<"a">>, Body |-> <<>>]>>,
      <<[Author |-> <<"a">>, Body |-> <<"x", NL, "#", "#", " ", "C", "o", "m", "m", "e", "n", "t", " ", "b", "y", " ", "b", " ", "a", "t", " ", "T", NL, NL, "y">>]>>,
      <<[Author |-> <<"a", " ", "a", "t", " ", "b">>, Body |-> <<"h", "i">>]>> }
StoredAttachments ==
    { <<>>, <<[Filename |-> <<"f">>, URL |-> <<"u", "(", "1", ")">>]>> }

StoredIssues ==
    {[JiraKey |-> JiraKey(1), Title |-> <<"a">>, Description |-> d, Status |-> StatusOpen,
      Assignee |-> <<"x">>, Labels |-> l, Comments |-> c, Attachments |-> a, Hash |-> <<>>] :
        d \in StoredDescriptions, c \in StoredComments, a \in StoredAttachments,
        l \in {<<>>, << <<"y">>, <<"x">> >>}}

InitStorage ==
    /\ store \in {[NoStore EXCEPT !.issue = s, !.pc = "new"] : s \in StoredIssues}
    /\ input = MdInput("lines", <<>>)
    /\ InitConv
    /\ InitPush
    /\ InitInline
    /\ InitAtt
    /\ InitPullIdle
    /\ InitRegIdle
    /\ InitDaemonIdle

\* storage.go 59-103: the hash is computed and the file is written
Saved(st, issue) ==
    [st EXCEPT !.issue = issue, !.front = issueFront(issue), !.body = issueBody(issue),
               !.pc = "saved"]
SaveIssue ==
    /\ store.pc = "new"
    /\ store' = Saved(store, [store.issue EXCEPT !.Hash = ComputeHash(store.issue)])
    /\ UNCHANGED convVars
    /\ UNCHANGED pushVars
    /\ UNCHANGED inlVars
    /\ UNCHANGED attVars
    /\ UNCHANGED pullVars
    /\ UNCHANGED regVars
    /\ UNCHANGED daemonVars

\* storage.go 139-150: the file is read and parsed
ReadIssue ==
    /\ store.pc = "saved"
    /\ store' = [store EXCEPT !.read = parseMarkdown(store.front, store.body), !.pc = "read"]
    /\ UNCHANGED convVars
    /\ UNCHANGED pushVars
    /\ UNCHANGED inlVars
    /\ UNCHANGED attVars
    /\ UNCHANGED pullVars
    /\ UNCHANGED regVars
    /\ UNCHANGED daemonVars

\* part_010 251-262: the issue read is skipped when its hash is the stored
\* one, and is taken to have local changes otherwise
PushHashTest ==
    /\ store.pc = "read"
    /\ store' = [store EXCEPT !.pc = IF ComputeHash(store.read) = store.read.Hash
                                      THEN "skipped" ELSE "changed"]
    /\ UNCHANGED convVars
    /\ UNCHANGED pushVars
    /\ UNCHANGED inlVars
    /\ UNCHANGED attVars
    /\ UNCHANGED pullVars
    /\ UNCHANGED regVars
    /\ UNCHANGED daemonVars

NextStorage ==
    \/ SaveIssue
    \/ ReadIssue
    \/ PushHashTest

SpecStorage == InitStorage /\ [][NextStorage]_vars

(***************************************************************************)
(* Pull and Client.SearchIssues on a project whose issues come and go      *)
(***************************************************************************)
\* part_015 13-17, scaled down from 100 and 1000 with their order kept
SearchPageSize == 2
MaxSearchResults == 3

\* issues ever created in the project, and runs of Pull
NumJira == 4
MaxPulls == 2

JiraIssue(key) == [key |-> key, archived |-> FALSE]

InitPull ==
    /\ pull = NoPull
    /\ input = MdInput("lines", <<>>)
    /\ InitConv
    /\ InitPush
    /\ InitInline
    /\ InitAtt
    /\ InitStore
    /\ InitRegIdle
    /\ InitDaemonIdle

\* the other groups stand still while Pull runs
PullOnly ==
    /\ UNCHANGED convVars
    /\ UNCHANGED pushVars
    /\ UNCHANGED inlVars
    /\ UNCHANGED attVars
    /\ UNCHANGED storeVars
    /\ UNCHANGED regVars
    /\ UNCHANGED daemonVars

\* Jira: an issue is created; the search is ordered by the last update, so the
\* new issue comes first
JiraCreate ==
    /\ pull.pc = "idle"
    /\ pull.made < NumJira
    /\ pull' = [pull EXCEPT !.jira = <<JiraIssue(pull.made + 1)>> \o @, !.made = @ + 1]
    /\ PullOnly

Without(issues, k) == SubSeq(issues, 1, k - 1) \o SubSeq(issues, k + 1, Len(issues))

\* Jira: an issue is archived, which is an update of it
JiraArchive ==
    /\ pull.pc = "idle"
    /\ \E k \in 1..Len(pull.jira) :
          /\ ~pull.jira[k].archived
          /\ pull' = [pull EXCEPT !.jira = <<[pull.jira[k] EXCEPT !.archived = TRUE]>>
                                           \o Without(pull.jira, k)]
    /\ PullOnly

\* Jira: an issue is deleted
JiraDelete ==
    /\ pull.pc = "idle"
    /\ \E k \in 1..Len(pull.jira) : pull' = [pull EXCEPT !.jira = Without(pull.jira, k)]
    /\ PullOnly

\* part_012 108-115: Pull starts the search
PullStartSearch ==
    /\ pull.pc = "idle"
    /\ pull.runs < MaxPulls
    /\ pull' = [pull EXCEPT !.pc = "search", !.token = 0, !.allIssues = <<>>, !.runs = @ + 1]
    /\ PullOnly

\* part_014 375-383: the size of the next page, 0 when the limit is reached
Want(fetched) ==
    IF MaxSearchResults > 0 /\ MaxSearchResults - fetched < SearchPageSize
    THEN Max(0, MaxSearchResults - fetched)
    ELSE SearchPageSize

\* the page that Jira returns after the token, and the token that follows it
\* (0: there is no further page)
Page(issues, token, want) == SubSeq(issues, token + 1, Min(Len(issues), token + want))
NextPageToken(issues, token, want) == IF token + want < Len(issues) THEN token + want ELSE 0

\* part_014 418-426: the issues of the page that are not archived
RECURSIVE NotArchived(_)
NotArchived(page) ==
    IF page = <<>> THEN <<>>
    ELSE (IF page[1].archived THEN <<>> ELSE <<page[1].key>>) \o NotArchived(Tail(page))

\* part_014 428-436: the search ends when there is no further page or the
\* limit is reached
SearchGoesOn(st, token) ==
    [st EXCEPT !.token = token,
               !.pc = IF token = 0 \/ (MaxSearchResults > 0
                                        /\ Len(st.allIssues) >= MaxSearchResults)
                      THEN "fetched" ELSE "search"]

\* part_014 372-436: one iteration of the loop of SearchIssues
SearchIssuesPage ==
    /\ pull.pc = "search"
    /\ pull' = IF Want(Len(pull.allIssues)) <= 0
               THEN [pull EXCEPT !.pc = "fetched"]
               ELSE SearchGoesOn(
                       [pull EXCEPT !.allIssues = @ \o NotArchived(
                            Page(pull.jira, pull.token, Want(Len(pull.allIssues))))],
                       NextPageToken(pull.jira, pull.token, Want(Len(pull.allIssues))))
    /\ PullOnly

Keys(issues) == {issues[k] : k \in 1..Len(issues)}

\* part_012 128-145: every local file whose key was not fetched is deleted
PullDeleteLocal ==
    /\ pull.pc = "fetched"
    /\ pull' = [pull EXCEPT !.files = @ \cap Keys(pull.allIssues), !.pc = "deleted"]
    /\ PullOnly

\* part_012 152-178: every fetched issue is saved
PullSaveFetched ==
    /\ pull.pc = "deleted"
    /\ pull' = [pull EXCEPT !.files = @ \cup Keys(pull.allIssues), !.pc = "idle"]
    /\ PullOnly

NextPull ==
    \/ JiraCreate
    \/ JiraArchive
    \/ JiraDelete
    \/ PullStartSearch
    \/ SearchIssuesPage
    \/ PullDeleteLocal
    \/ PullSaveFetched

SpecPull == InitPull /\ [][NextPull]_vars

(***************************************************************************)
(* Registry: RegisterAndSave and UnregisterAndSave                         *)
(***************************************************************************)
\* the identifiers that a caller sets or GenerateProjectID returns
ProjectIDs == {"p1", "p2", "p3"}

\* paths given by callers: directories, a symbolic link to /a, and a path
\* that does not exist
ProjectPaths == {"/a", "/b", "/c", "/l", "/x"}
ProjectNames == {"n", "m"}

\* registry.go 139-143: filepath.EvalSymlinks
EvalSymlinks(path) == IF path = "/l" THEN "/a" ELSE path

\* registry.go 145-147: os.Stat
StatFails(path) == path = "/x"

Project(id, name, path) == [ID |-> id, Name |-> name, Path |-> path]

\* registry.go 149-154
AlreadyRegistered(projects, path) == \E id \in DOMAIN projects : projects[id].Path = path

\* r.data.Projects[id] = project, and delete(r.data.Projects, id)
Put(projects, id, project) ==
    [k \in DOMAIN projects \cup {id} |-> IF k = id THEN project ELSE projects[k]]
Delete(projects, id) == [k \in DOMAIN projects \ {id} |-> projects[k]]

\* registry.go 162-165: the identifier of the project, generated when the
\* caller set none; a generated identifier is not one in use
IdsFor(id, projects) == IF id = "" THEN ProjectIDs \ DOMAIN projects ELSE {id}

InitRegistry ==
    /\ reg = NoRegistry
    /\ pull = NoPull
    /\ input = MdInput("lines", <<>>)
    /\ InitConv
    /\ InitPush
    /\ InitInline
    /\ InitAtt
    /\ InitStore
    /\ InitDaemonIdle

RegistryOnly ==
    /\ UNCHANGED convVars
    /\ UNCHANGED pushVars
    /\ UNCHANGED inlVars
    /\ UNCHANGED attVars
    /\ UNCHANGED storeVars
    /\ UNCHANGED pullVars
    /\ UNCHANGED daemonVars

\* registry.go 167-176: the project is put in the map and the registry saved;
\* when the save fails the entry of its identifier is deleted
Registered(st, project, saved) ==
    IF saved
    THEN [st EXCEPT !.Projects = Put(@, project.ID, project),
                    !.file = Put(st.Projects, project.ID, project),
                    !.op = "RegisterAndSave", !.id = project.ID, !.err = ""]
    ELSE [st EXCEPT !.Projects = Delete(Put(@, project.ID, project), project.ID),
                    !.op = "RegisterAndSave", !.id = project.ID, !.err = "persist failed"]

\* registry.go 127-177
RegisterAndSave ==
    /\ \E id \in ProjectIDs \cup {""}, name \in ProjectNames, path \in ProjectPaths,
          saved \in BOOLEAN :
          IF StatFails(EvalSymlinks(path))
          THEN reg' = [reg EXCEPT !.op = "RegisterAndSave", !.id = id, !.err = "invalid path"]
          ELSE IF AlreadyRegistered(reg.Projects, EvalSymlinks(path))
          THEN reg' = [reg EXCEPT !.op = "RegisterAndSave", !.id = id,
                             !.err = "project already exists"]
          ELSE \E newID \in IdsFor(id, reg.Projects) :
                  reg' = Registered(reg, Project(newID, name, EvalSymlinks(path)), saved)
    /\ RegistryOnly

\* registry.go 190-199: the project is deleted from the map and the registry
\* saved; when the save fails the project is put back
Unregistered(st, projectID, saved) ==
    IF saved
    THEN [st EXCEPT !.Projects = Delete(@, projectID),
                    !.file = Delete(st.Projects, projectID),
                    !.op = "UnregisterAndSave", !.id = projectID, !.err = ""]
    ELSE [st EXCEPT !.Projects = Put(Delete(@, projectID), projectID, st.Projects[projectID]),
                    !.op = "UnregisterAndSave", !.id = projectID,
                    !.err = "persist failed"]

\* registry.go 181-200
UnregisterAndSave ==
    /\ \E projectID \in ProjectIDs, saved \in BOOLEAN :
          IF projectID \notin DOMAIN reg.Projects
          THEN reg' = [reg EXCEPT !.op = "UnregisterAndSave", !.id = projectID,
                             !.err = "project not found"]
          ELSE reg' = Unregistered(reg, projectID, saved)
    /\ RegistryOnly

NextRegistry ==
    \/ RegisterAndSave
    \/ UnregisterAndSave

SpecRegistry == InitRegistry /\ [][NextRegistry]_vars

(***************************************************************************)
(* Daemon.Start called by several processes on one socket path and one     *)
(* PID file                                                                *)
(***************************************************************************)
NumProcs == 3
Procs == 1..NumProcs

\* a process before its call of Start; took: it removed the socket file of a
\* daemon that was serving
Proc == [pc |-> "ready", err |-> "", took |-> FALSE]

\* the socket file is the set of the process that bound it, the PID file the
\* set of [by |-> the process that created it, pid |-> what it holds]
InitDaemon ==
    /\ daemon = [socket |-> {}, pidFile |-> {}, procs |-> [p \in Procs |-> Proc]]
    /\ reg = NoRegistry
    /\ pull = NoPull
    /\ input = MdInput("lines", <<>>)
    /\ InitConv
    /\ InitPush
    /\ InitInline
    /\ InitAtt
    /\ InitStore

DaemonOnly ==
    /\ UNCHANGED convVars
    /\ UNCHANGED pushVars
    /\ UNCHANGED inlVars
    /\ UNCHANGED attVars
    /\ UNCHANGED storeVars
    /\ UNCHANGED pullVars
    /\ UNCHANGED regVars

\* daemon.go 338-346: the process has not exited
isProcessAlive(d, pid) == pid \in Procs /\ d.procs[pid].pc \notin {"ready", "failed", "dead"}

\* daemon.go 348-355: the PIDs that readPIDFile returns without an error; an
\* absent file and a file that holds no number give an error
readPIDFile(d) == UNION {f.pid : f \in d.pidFile}

\* daemon.go 370-396: the daemon bound to the socket file answers when it
\* serves; a listener that is not served yet lets the request time out
getHealth(d) == \E q \in d.socket : d.procs[q].pc = "serving"

\* daemon.go 262-280
IsRunning(d) == (\E pid \in readPIDFile(d) : isProcessAlive(d, pid)) /\ getHealth(d)

Serving(d) == {q \in Procs : d.procs[q].pc = "serving"}

\* the process goes on to pc
Goes(d, p, pc0) == [d EXCEPT !.procs[p].pc = pc0]

\* the call of Start returns err and the process exits
Fails(d, p, err) == [d EXCEPT !.procs[p].pc = "failed", !.procs[p].err = err]

\* the socket file is unlinked by p
Unlinked(d, p) ==
    [d EXCEPT !.socket = {},
              !.procs[p].took = @ \/ (d.socket \cap Serving(d)) \ {p} # {}]

\* listener.Close() of a listener made by net.Listen unlinks the socket path
Close(d, p) == Unlinked(d, p)

\* daemon.go 118-126
Start(p) ==
    /\ daemon.procs[p].pc = "ready"
    /\ daemon' = IF IsRunning(daemon) THEN Fails(daemon, p, "daemon already running")
                 ELSE Goes(daemon, p, "remove")
    /\ DaemonOnly

\* daemon.go 134-137 and 40-54: what is at the socket path is a socket
RemoveSocket(p) ==
    /\ daemon.procs[p].pc = "remove"
    /\ daemon' = Goes(Unlinked(daemon, p), p, "listen")
    /\ DaemonOnly

\* daemon.go 139-144: net.Listen fails when the path exists
Listen(p) ==
    /\ daemon.procs[p].pc = "listen"
    /\ daemon' = IF daemon.socket # {} THEN Fails(daemon, p, "failed to create socket")
                 ELSE Goes([daemon EXCEPT !.socket = {p}], p, "chmod")
    /\ DaemonOnly

\* daemon.go 146-150: os.Chmod fails when the path is gone
Chmod(p) ==
    /\ daemon.procs[p].pc = "chmod"
    /\ daemon' = IF daemon.socket = {}
                 THEN Fails(Close(daemon, p), p, "failed to set socket permissions")
                 ELSE Goes(daemon, p, "pidopen")
    /\ DaemonOnly

\* daemon.go 317-318: os.OpenFile with O_CREATE|O_EXCL
PidOpen(p) ==
    /\ daemon.procs[p].pc = "pidopen"
    /\ daemon' = IF daemon.pidFile = {}
                 THEN Goes([daemon EXCEPT !.pidFile = {[by |-> p, pid |-> {}]}], p, "pidwrite")
                 ELSE Goes(daemon, p, "pidcheck")
    /\ DaemonOnly

\* daemon.go 319-322: the PID is written to the file that was opened, which is
\* the file at the path when no other process has removed it since
PidWrite(p) ==
    /\ daemon.procs[p].pc = "pidwrite"
    /\ daemon' = Goes([daemon EXCEPT !.pidFile = {IF f.by = p THEN [f EXCEPT !.pid = {p}] ELSE f :
                                                  f \in daemon.pidFile}], p, "serve")
    /\ DaemonOnly

\* daemon.go 326-329 and 152-156
PidCheck(p) ==
    /\ daemon.procs[p].pc = "pidcheck"
    /\ daemon' = IF \E pid \in readPIDFile(daemon) : isProcessAlive(daemon, pid)
                 THEN Fails(Close(daemon, p), p, "daemon already running")
                 ELSE Goes(daemon, p, "pidremove")
    /\ DaemonOnly

\* daemon.go 330-333 and 152-156: os.Remove fails when the file is gone
PidRemove(p) ==
    /\ daemon.procs[p].pc = "pidremove"
    /\ daemon' = IF daemon.pidFile = {}
                 THEN Fails(Close(daemon, p), p, "stale pidfile exists and cannot remove")
                 ELSE Goes([daemon EXCEPT !.pidFile = {}], p, "pidopen")
    /\ DaemonOnly

\* daemon.go 158-184: the server is set up and serves on the listener
Serve(p) ==
    /\ daemon.procs[p].pc = "serve"
    /\ daemon' = Goes(daemon, p, "serving")
    /\ DaemonOnly

\* a serving daemon is killed: it leaves its socket file and its PID file
Killed(p) ==
    /\ daemon.procs[p].pc = "serving"
    /\ daemon' = Goes(daemon, p, "dead")
    /\ DaemonOnly

NextDaemon ==
    \E p \in Procs :
        \/ Start(p)
        \/ RemoveSocket(p)
        \/ Listen(p)
        \/ Chmod(p)
        \/ PidOpen(p)
        \/ PidWrite(p)
        \/ PidCheck(p)
        \/ PidRemove(p)
        \/ Serve(p)
        \/ Killed(p)

SpecDaemon == InitDaemon /\ [][NextDaemon]_vars

(***************************************************************************)
(* Properties of the converters                                            *)
(***************************************************************************)
\* the k-th conversion of the run
IsToMarkdown(k) == k <= Len(hist) /\ hist[k].op = "ADFToMarkdown"
IsToADF(k) == k <= Len(hist) /\ hist[k].op = "MarkdownToADF"
\* the run started from a tree and has serialized, parsed and serialized again
Reserialized == input.class \notin MdClasses /\ Len(hist) >= 3

\* C1: every iteration of the block loop of MarkdownToADF advances the line
\* cursor by at least one line, whatever the line holds, so that the parse of
\* every input terminates and returns a Document
C1_LoopAdvances ==
    [][(pc = "parsing" /\ i <= Len(lines)) => (pc' = "parsing" /\ i' > i)]_vars

\* C2: serializing a tree, parsing the markup and serializing the parsed tree
\* gives the first markup again, byte for byte
C2_Idempotent == Reserialized => hist[3].md = hist[1].md

\* C3: markup in the canonical syntax is parsed without the loop standing still
\* and comes back from parse and serialize equal to itself, trimmed
C3_MarkupRoundTrip ==
    input.class = "canonical" =>
        /\ pc \notin {"hung", "error", "panicked"}
        /\ (pc = "parsing" /\ i <= Len(lines)) => BlockStep(lines, i).consumed > 0
        /\ Len(hist) >= 2 => hist[2].md = TrimSpace(input.md)

\* a canonical input that holds a list nested three levels deep with mixed
\* kinds has gone through parse and serialize
C3_Witness ==
    /\ input.class = "canonical"
    /\ Contains(input.md, <<NL, " ", " ", " ", " ", "1", ".", " ", "c", NL>>)
    /\ Len(hist) >= 2
    /\ hist[2].md = TrimSpace(input.md)

\* storage_test.go 1981-2008: same types, texts, mark types and child counts
RECURSIVE compareADFNodes(_, _)
compareADFNodes(a, b) ==
    /\ a.type = b.type
    /\ a.text = b.text
    /\ Len(a.marks) = Len(b.marks)
    /\ \A k \in 1..Len(a.marks) : a.marks[k].type = b.marks[k].type
    /\ Len(a.content) = Len(b.content)
    /\ \A k \in 1..Len(a.content) : compareADFNodes(a.content[k], b.content[k])

\* storage_test.go 1965-1978
compareADFDocuments(a, b) ==
    /\ a.type = b.type
    /\ a.version = b.version
    /\ Len(a.content) = Len(b.content)
    /\ \A k \in 1..Len(a.content) : compareADFNodes(a.content[k], b.content[k])

\* C4: a tree of nested bullet and ordered lists, serialized and parsed, is
\* structurally equal to itself
C4_ListTreeRoundTrip ==
    input.class = "lists" =>
        /\ pc \notin {"hung", "error", "panicked"}
        /\ Len(hist) >= 2 =>
              compareADFDocuments(Unmarshal(input.raw).doc, Unmarshal(hist[2].raw).doc)

\* a list tree three levels deep whose levels differ in kind has been
\* serialized and parsed
C4_Witness ==
    /\ input.class = "lists"
    /\ Len(hist) >= 2
    /\ Contains(hist[1].md, <<"-", " ", "m", "3", NL, " ", " ", "1", ".", " ", "p", "2", NL,
                              " ", " ", "2", ".", " ", "m", "2", NL,
                              " ", " ", " ", " ", "-", " ", "m", "1">>)
    /\ compareADFDocuments(Unmarshal(input.raw).doc, Unmarshal(hist[2].raw).doc)

\* the image markup of a media reference
IsImageMarkup(md) == HasPrefix(md, <<"!", "[", "p", "i", "c", "]", "(">>)

\* C5: a media reference serialized as image markup is serialized as the same
\* image markup again after the markup has been parsed
C5_MediaRoundTrip == (Reserialized /\ IsImageMarkup(hist[1].md)) => hist[3].md = hist[1].md

\* C6: ADFToMarkdown of an input that decodes returns a string: it neither
\* returns an error nor aborts
C6_SerializerTotal ==
    \A k \in 1..Len(hist) :
        (IsToMarkdown(k) /\ ~Unmarshal(hist[k].raw).err) => (~hist[k].err /\ ~hist[k].panic)

\* the content of an issue: every field but the hash line
Content(issue) == [issue EXCEPT !.Hash = <<>>]
\* the local file differs from what the last pull or save wrote
LocalChanges(k) == Content(local[k]) # Content(pulled[k])
\* the issue in Jira differs from what the last pull or save saw
RemoteModified(k) == remote[k] # pulled[k]
\* the step is an iteration of the loop of Push, for the issue at the head
IsPushIteration == push.pc = "running" /\ push.queue # <<>> /\ push'.queue = Tail(push.queue)

\* C7: Push writes an issue to Jira only when the issue has local changes and
\* the issue in Jira is as the last pull saw it; an issue it takes up whose
\* copy in Jira has been modified since is not written, is recorded in
\* Conflicts, and makes the run return the conflict error
C7_PushStrict ==
    [][/\ (IsPushIteration /\ api' # api) =>
              (LocalChanges(Head(push.queue)) /\ ~RemoteModified(Head(push.queue)))
       /\ (/\ IsPushIteration
           /\ RemoteModified(Head(push.queue))
           /\ push'.Skipped = push.Skipped
           /\ push'.Errors = push.Errors) =>
              (/\ api' = api
               /\ push'.Conflicts = Append(push.Conflicts, Head(push.queue)))
       /\ (push.pc = "running" /\ push'.pc = "done" /\ Len(push.Conflicts) > 0) =>
              push'.err = "conflict"]_vars

BlankOnly(md) == \A k \in 1..Len(md) : md[k] \in ClsSpace
\* an absent or null input, or a Document with empty content
EmptyADF(raw) ==
    \/ raw.text \in {"empty", "null"}
    \/ (~Unmarshal(raw).err /\ Unmarshal(raw).doc.content = <<>>)

\* C9: ADFToMarkdown of an absent or null input or of a Document with empty
\* content returns the empty string and no error; MarkdownToADF of the empty
\* string or of blank lines only returns the Document of type doc, version 1,
\* with an empty content array that is not null
C9_EmptyNormalized ==
    \A k \in 1..Len(hist) :
        /\ (IsToMarkdown(k) /\ EmptyADF(hist[k].raw)) =>
              (hist[k].md = <<>> /\ ~hist[k].err /\ ~hist[k].panic)
        /\ (IsToADF(k) /\ BlankOnly(hist[k].md)) => hist[k].raw = RawOf(EmptyDocJSON)

\* blank lines have been parsed and the Document parsed from them serialized
C9_Witness ==
    /\ IsToADF(1) /\ hist[1].md # <<>> /\ BlankOnly(hist[1].md)
    /\ IsToMarkdown(2) /\ hist[2].md = <<>>

\* the kinds of node that stand at the top level of a Document
BlockKinds ==
    {"paragraph", "heading", "bulletList", "orderedList", "taskList", "codeBlock",
     "blockquote", "rule", "table", "panel", "expand", "nestedExpand",
     "mediaSingle", "mediaGroup"}

\* storage_test.go 2105-2123, with the text and children rule added: a node has
\* a type, a text leaf has no children and any other node has no text
RECURSIVE validateNodes(_)
validateNodes(nodes) ==
    \A k \in 1..Len(nodes) :
        /\ nodes[k].type # ""
        /\ nodes[k].type = "text" => nodes[k].content = <<>>
        /\ nodes[k].type # "text" => nodes[k].text = <<>>
        /\ validateNodes(nodes[k].content)

\* C10: at every step of a parse and in its result, every node appended to the
\* Document has a type, top-level nodes are blocks, containers carry no text
\* and text leaves no children
C10_ParserNodesValid ==
    /\ validateNodes(doc.content)
    /\ \A k \in 1..Len(doc.content) : doc.content[k].type \in BlockKinds
    /\ \A k \in 1..Len(hist) :
          IsToADF(k) => validateNodes(Unmarshal(hist[k].raw).doc.content)

\* adf.go 124-203: the kinds that nodeToMarkdown has a case for
KnownKinds ==
    {"paragraph", "heading", "bulletList", "orderedList", "taskList", "listItem",
     "codeBlock", "blockquote", "rule", "hardBreak", "table", "panel", "expand",
     "nestedExpand", "mediaGroup", "mediaSingle", "mediaInline", "emoji", "mention",
     "date", "status", "inlineCard", "text"}

\* the texts of the text leaves at and below the nodes
RECURSIVE TextLeaves(_)
TextLeaves(nodes) ==
    UNION {(IF nodes[k].type = "text" THEN {nodes[k].text} ELSE {})
           \cup TextLeaves(nodes[k].content) : k \in 1..Len(nodes)}

\* the markup of the nodes one after the other
MarkupInOrder(nodes) ==
    Concat([k \in 1..Len(nodes) |-> nodeToMarkdown(nodes[k], 0)])

\* a Document that is one node of an unrecognized kind has the markup of the
\* children of that node
UnknownAlone(content, md) ==
    (Len(content) = 1 /\ content[1].type \notin KnownKinds) =>
        md = TrimSpace(MarkupInOrder(content[1].content))

HelloDoc == DocOf(<<Future(<<TextNode(<<"h", "e", "l", "l", "o">>, <<>>)>>)>>)

\* C11: a Document that holds a node of an unrecognized kind is serialized
\* without error; when the unknown node is the whole Document the markup is the
\* concatenation, in order, of the markup of its children; the text of every
\* text leaf at or below an unknown node is in the markup; an unknown node
\* around the text "hello" gives "hello"
C11_UnknownKind ==
    (input.class = "unknown" /\ Len(hist) >= 1) =>
        /\ ~hist[1].err /\ ~hist[1].panic
        /\ \A t \in TextLeaves(Unmarshal(input.raw).doc.content) :
              Contains(hist[1].md, t)
        /\ UnknownAlone(Unmarshal(input.raw).doc.content, hist[1].md)
        /\ input.raw = HelloDoc => hist[1].md = <<"h", "e", "l", "l", "o">>

\* an unknown node around two marked and unmarked text leaves has been
\* serialized to their markup in order
C11_Witness ==
    /\ input.class = "unknown"
    /\ Len(hist) >= 1
    /\ hist[1].md = <<"*", "*", "a", "*", "*", " ", "b">>


(***************************************************************************)
(* Properties of the inline tokenizer                                      *)
(***************************************************************************)
\* the part of the text that the call has still to look at
InlineAhead == IF inline.pc = "loop" THEN inline.remaining ELSE <<>>

IsPlainLeaf(node) == node.type = "text" /\ node.marks = <<>>

\* every node stands for a span that is not empty, the spans in order followed
\* by what is still ahead are the text, and a plain leaf holds its span
InlineCovers ==
    /\ Len(inline.nodes) = Len(inline.spans)
    /\ Concat(inline.spans) \o InlineAhead = inline.text
    /\ \A k \in 1..Len(inline.spans) :
          /\ inline.spans[k] # <<>>
          /\ IsPlainLeaf(inline.nodes[k]) => inline.nodes[k].text = inline.spans[k]

\* a text that no pattern matches comes back as one plain leaf
InlineLiteral ==
    (inline.pc = "done" /\ inline.text # <<>>
     /\ EarliestPattern(patterns, inline.text).e = 0) =>
        inline.nodes = <<TextNode(inline.text, <<>>)>>

\* C12: at every point of a call of parseInlineContent the nodes appended so
\* far stand, in order, for spans that with the text still ahead make up the
\* input exactly, plain leaves hold their span verbatim, and text that no
\* pattern matches is one plain leaf; every iteration of the loop makes the
\* covered part longer by at least one character; the nodes at the end are
\* those that parseInlineContent returns
C12_TokenizerTotal ==
    /\ [](/\ InlineCovers
          /\ InlineLiteral
          /\ inline.pc = "done" => inline.nodes = parseInlineContent(inline.text))
    /\ [][(inline.pc = "loop" /\ inline.remaining # <<>>) =>
             Len(Concat(inline'.spans)) > Len(Concat(inline.spans))]_vars

\* a text that opens with markers no pattern matches and goes on with an
\* italic span has been tokenized to a plain leaf and a marked leaf
C12_Witness ==
    /\ inline.pc = "done"
    /\ inline.text = <<"*", "*", "*", "i", "*">>
    /\ Len(inline.nodes) = 2
    /\ inline.nodes[1] = TextNode(<<"*", "*">>, <<>>)
    /\ inline.nodes[2] = TextNode(<<"i">>, <<ADFMark("em", NilAttrs)>>)

(***************************************************************************)
(* Properties of the block serializers and parsers                         *)
(***************************************************************************)
\* the markup of the nodes, one blank line between one node and the next
BlankLineSeparated(nodes) ==
    Join([k \in 1..Len(nodes) |-> nodeToMarkdown(nodes[k], 0)], <<NL, NL>>)

\* the container tag of a panel or an expand around the markup of its child
\* blocks, as the format strings of adf.go 502 and 524 lay it out
ContainerOf(node, body) ==
    IF node.type = "panel"
    THEN PanelPrefix \o <<DQ>> \o StrAttr(node.attrs, "panelType", <<"i", "n", "f", "o">>)
         \o <<DQ, ">", NL, NL>> \o body \o <<NL, NL>> \o PanelClose
    ELSE DetailsPrefix \o <<">", NL>> \o SummaryOpen
         \o StrAttr(node.attrs, "title", <<"D", "e", "t", "a", "i", "l", "s">>)
         \o <<"<", "/", "s", "u", "m", "m", "a", "r", "y", ">", NL, NL>>
         \o body \o <<NL>> \o DetailsClose

ContainerBlocks(content, md) ==
    (Len(content) = 1 /\ content[1].type \in {"panel", "expand"}) =>
        md = ContainerOf(content[1], TrimSpace(BlankLineSeparated(content[1].content)))

\* C13: a Document that is one panel or one expand is serialized as the
\* container tag, with the panel type or the title, around the markup of the
\* child blocks with a blank line between consecutive child blocks
C13_ContainerBlocks ==
    (input.class = "trees" /\ Len(hist) >= 1) =>
        ContainerBlocks(Unmarshal(input.raw).doc.content, hist[1].md)

\* the node of a container of the given kind as WrapMd writes it, with the
\* nodes that the body gives when it is parsed as a Document of its own
ContainerAround(kind, body) ==
    ADFNode(kind,
            IF kind = "panel" THEN Attrs([panelType |-> StrV(<<"i", "n", "f", "o">>)])
            ELSE Attrs([title |-> StrV(<<"t">>)]),
            Decoded(Unmarshal(MarkdownToADF(body).raw)))

\* C14: a panel or expand around any body, a body with another panel or expand
\* included, is parsed to one container node whose children are the nodes of
\* the body: the container ends at its own closing tag
C14_ContainerBody ==
    (input.class = "nested" /\ IsToADF(1)) =>
        \A kind \in ContainerKinds, b \in NestedBodies :
            input.md = WrapMd(kind, b) =>
                Unmarshal(hist[1].raw).doc.content = <<ContainerAround(kind, b)>>

\* the line is blank or block dispatch gives it to a recognizer other than the
\* paragraph
LeavesParagraph(ls, j) == BlockStep(ls, j).kind # "paragraph"

\* C15: an iteration of the block loop that parses a paragraph takes the lines
\* up to the first following line that is blank or that starts another block,
\* and leaves that line for the next iteration
C15_ParagraphEnds ==
    [][(pc = "parsing" /\ i <= Len(lines) /\ BlockStep(lines, i).kind = "paragraph") =>
          /\ \A j \in (i + 1)..(i' - 1) : ~LeavesParagraph(lines, j)
          /\ i' <= Len(lines) => LeavesParagraph(lines, i')]_vars

\* adf.go 702-786: the recognizers of block dispatch in the order they are
\* tried, and the condition under which each takes the line
Recognizers ==
    <<"codeBlock", "heading", "rule", "table", "panel", "expand", "blockquote",
      "taskList", "bulletList", "orderedList">>

Accepts(kind, ls, j) ==
    CASE kind = "codeBlock" -> HasPrefix(ls[j], Fence)
      [] kind = "heading" -> MatchString(reHeading, ls[j])
      [] kind = "rule" -> MatchAny(reHorizontalRule, TrimSpace(ls[j]))
      [] kind = "table" -> /\ HasPrefix(TrimSpace(ls[j]), <<"|">>)
                           /\ parseTable(ls, j).consumed > 0
      [] kind = "panel" -> HasPrefix(ls[j], PanelPrefix)
      [] kind = "expand" -> HasPrefix(ls[j], DetailsPrefix)
      [] kind = "blockquote" -> HasPrefix(ls[j], QuotePrefix)
      [] kind = "taskList" -> MatchString(reTaskListItem, ls[j])
      [] kind = "bulletList" -> MatchString(reUnorderedListStart, ls[j])
      [] kind = "orderedList" -> MatchString(reOrderedListStart, ls[j])

\* the first recognizer in the order, from the k-th on, that takes the line,
\* the paragraph when none does
RECURSIVE FirstOf(_, _, _)
FirstOf(ls, j, k) ==
    IF k > Len(Recognizers) THEN "paragraph"
    ELSE IF Accepts(Recognizers[k], ls, j) THEN Recognizers[k]
    ELSE FirstOf(ls, j, k + 1)

FirstAccepting(ls, j) == FirstOf(ls, j, 1)

\* the types of node that the sub-parser of a recognizer returns
TypesOf(kind) == IF kind = "expand" THEN {"expand", "nestedExpand"} ELSE {kind}

DispatchedTo(st, kind) ==
    /\ st.kind = kind
    /\ (~st.hung /\ st.node.type # "") => st.node.type \in TypesOf(kind)

\* C16: at every non-blank line where the block loop stands, the iteration
\* goes to the first recognizer in the fixed order that takes the line, to the
\* paragraph when none does, and the node appended is of that recognizer
C16_DispatchOrder ==
    (pc = "parsing" /\ i <= Len(lines) /\ TrimSpace(lines[i]) # <<>>) =>
        DispatchedTo(BlockStep(lines, i), FirstAccepting(lines, i))

\* the loop stands at a task line, which the task recognizer takes although
\* the bullet recognizer after it accepts the line too
C16_Witness ==
    /\ pc = "parsing" /\ i <= Len(lines)
    /\ Accepts("taskList", lines, i)
    /\ Accepts("bulletList", lines, i)
    /\ BlockStep(lines, i).kind = "taskList"
    /\ BlockStep(lines, i).node.type = "taskList"

\* the line is an item of a list of the kind of the step, of any list
IsItemOf(kind, line) ==
    MatchString(IF kind = "orderedList" THEN reOrderedListItem ELSE reUnorderedListItem, line)
IsItem(line) == MatchString(reOrderedListItem, line) \/ MatchString(reUnorderedListItem, line)

\* the line ends a list of the kind with the base indentation: it is no list
\* line, it is indented less, or it stands at the base with the other marker
EndsList(kind, base, line) ==
    \/ ~IsItem(line)
    \/ getIndent(line) < base
    \/ getIndent(line) = base /\ ~IsItemOf(kind, line)

\* the first line after line j that ends the list that starts at line j
ListEnd(kind, ls, j) ==
    CHOOSE e \in (j + 1)..(Len(ls) + 1) :
        /\ e <= Len(ls) => EndsList(kind, getIndent(ls[j]), ls[e])
        /\ \A m \in (j + 1)..(e - 1) : ~EndsList(kind, getIndent(ls[j]), ls[m])

\* the lines from j up to e that stand at the indentation of line j
AtBase(ls, j, e) == {m \in j..(e - 1) : getIndent(ls[m]) = getIndent(ls[j])}

\* the list items at and below the nodes
RECURSIVE ItemCount(_)
ItemCount(nodes) ==
    IF nodes = <<>> THEN 0
    ELSE (IF Head(nodes).type = "listItem" THEN 1 ELSE 0)
         + ItemCount(Head(nodes).content) + ItemCount(Tail(nodes))

\* the list parsed from line j: it runs to the line that ends it, its items
\* are the lines at the base indentation, and every line indented more is an
\* item of a list nested under one of them
ListFollowsIndent(kind, ls, j, st) ==
    /\ j + st.consumed = ListEnd(kind, ls, j)
    /\ st.node.type = kind
    /\ Len(st.node.content) = Cardinality(AtBase(ls, j, ListEnd(kind, ls, j)))
    /\ ItemCount(<<st.node>>) = ListEnd(kind, ls, j) - j

IsListStep(st, line) ==
    st.kind \in {"bulletList", "orderedList"} /\ IsItemOf(st.kind, line)

\* C17: a list that block dispatch starts at an item line takes the lines up to
\* the first line that is no list line or that is indented less than the first
\* one; the lines at the indentation of the first are its items, and the lines
\* indented more are items of lists nested under them
C17_ListIndentation ==
    (pc = "parsing" /\ i <= Len(lines) /\ IsListStep(BlockStep(lines, i), lines[i])) =>
        ListFollowsIndent(BlockStep(lines, i).kind, lines, i, BlockStep(lines, i))

\* the states of the task items at and below the nodes, in document order
RECURSIVE TaskStates(_)
TaskStates(nodes) ==
    IF nodes = <<>> THEN <<>>
    ELSE (IF Head(nodes).type = "taskItem"
          THEN <<StrAttr(Head(nodes).attrs, "state", <<>>)>> ELSE <<>>)
         \o TaskStates(Head(nodes).content) \o TaskStates(Tail(nodes))

\* the state that the box of a checkbox line stands for
BoxState(line, m) ==
    IF Group(line, m, 2) = <<" ">> THEN <<"T", "O", "D", "O">> ELSE <<"D", "O", "N", "E">>

\* the states of the checkbox lines among the lines, in order
RECURSIVE BoxStates(_)
BoxStates(ls) ==
    IF ls = <<>> THEN <<>>
    ELSE (IF MatchString(reTaskListItem, Head(ls))
          THEN <<BoxState(Head(ls), ReFind(reTaskListItem, Head(ls)))>> ELSE <<>>)
         \o BoxStates(Tail(ls))

\* C18: the Document parsed from markup of lists holds one taskItem for every
\* line with checkbox syntax, in the order of the lines, DONE when the box
\* holds x or X and TODO when it is blank
C18_TaskBeforeBullet ==
    (input.class = "listdocs" /\ IsToADF(1)) =>
        TaskStates(Unmarshal(hist[1].raw).doc.content) = BoxStates(Split(input.md, <<NL>>))

\* the line before line j that is nearest to it among those indented no more
\* than d, 0 when there is none
PrevAtOrAbove(ls, j, d) ==
    IF \E p \in 1..(j - 1) : getIndent(ls[p]) <= d
    THEN CHOOSE p \in 1..(j - 1) :
            /\ getIndent(ls[p]) <= d
            /\ \A q \in (p + 1)..(j - 1) : getIndent(ls[q]) > d
    ELSE 0

\* the place of the ordered item at line j in its list: one more than that of
\* the ordered item before it at the same indentation, 1 when the nearest line
\* that is not indented more is none, is indented less or is no ordered item
RECURSIVE PlaceInList(_, _)
PlaceAfter(ls, j, p) ==
    IF p > 0 /\ getIndent(ls[p]) = getIndent(ls[j]) /\ MatchString(reOrderedListItem, ls[p])
    THEN 1 + PlaceInList(ls, p)
    ELSE 1
PlaceInList(ls, j) == PlaceAfter(ls, j, PrevAtOrAbove(ls, j, getIndent(ls[j])))

\* every ordered item line of the markup carries its place in its list
NumberedFromOne(ls) ==
    \A j \in 1..Len(ls) :
        MatchString(reOrderedListItem, ls[j]) =>
            HasPrefix(TrimSpace(ls[j]), Itoa(PlaceInList(ls, j)) \o <<".", " ">>)

ListClasses == {"lists", "listdocs", "trees"}

\* markup whose ordered items are numbered 3, 7 and, nested, 4, 9, and the
\* markup with the same items numbered 1, 2 and, nested, 1, 2
OddlyNumbered ==
    <<"3", ".", " ", "a", NL, "7", ".", " ", "b", NL,
      " ", " ", "4", ".", " ", "c", NL, " ", " ", "9", ".", " ", "d">>
Renumbered ==
    <<"1", ".", " ", "a", NL, "2", ".", " ", "b", NL,
      " ", " ", "1", ".", " ", "c", NL, " ", " ", "2", ".", " ", "d">>

StartsAtFive(content) ==
    /\ Len(content) = 1
    /\ content[1].type = "orderedList"
    /\ HasNum(content[1].attrs, "order")
    /\ content[1].attrs.kv["order"].n = 5

WrapOrder ==
    <<"code", "subsup", "strike", "underline", "textColor", "border", "em", "strong", "link">>

MarkBefore(kind) ==
    CASE kind = "code" -> <<BQ>>
      [] kind = "subsup" -> <<"<", "s", "u", "b", ">">>
      [] kind = "strike" -> <<"~", "~">>
      [] kind = "underline" -> <<"<", "u", ">">>
      [] kind = "textColor" -> <<"<", "s", "p", "a", "n", " ", "s", "t", "y", "l", "e", "=", DQ, "c", "o", "l", "o", "r", ":", " ", "r", "e", "d", DQ, ">">>
      [] kind = "border" -> <<"<", "s", "p", "a", "n", " ", "s", "t", "y", "l", "e", "=", DQ, "b", "o", "r", "d", "e", "r", ":", " ", "1", "p", "x", " ", "s", "o", "l", "i", "d", " ", "r", "e", "d", DQ, ">">>
      [] kind = "em" -> <<"*">>
      [] kind = "strong" -> <<"*", "*">>
      [] kind = "link" -> <<"[">>

MarkAfter(kind) ==
    CASE kind = "code" -> <<BQ>>
      [] kind = "subsup" -> <<"<", "/", "s", "u", "b", ">">>
      [] kind = "strike" -> <<"~", "~">>
      [] kind = "underline" -> <<"<", "/", "u", ">">>
      [] kind = "textColor" -> SpanClose
      [] kind = "border" -> SpanClose
      [] kind = "em" -> <<"*">>
      [] kind = "strong" -> <<"*", "*">>
      [] kind = "link" -> <<"]", "(", "u", ")">>

\* the text wrapped by the first n kinds of the order that are among the kinds
RECURSIVE WrappedUpTo(_, _, _)
WrappedUpTo(text, kinds, n) ==
    IF n = 0 THEN text
    ELSE IF WrapOrder[n] \in kinds
    THEN MarkBefore(WrapOrder[n]) \o WrappedUpTo(text, kinds, n - 1) \o MarkAfter(WrapOrder[n])
    ELSE WrappedUpTo(text, kinds, n - 1)

KindsOf(marks) == {marks[k].type : k \in DOMAIN marks}

\* the text leaves of a Document that is one paragraph
LeavesOfOne(content) == IF Len(content) = 1 THEN content[1].content ELSE <<>>

\* a paragraph of one marked text leaf has the markup that the fixed order
\* gives for the set of its mark kinds, three asterisks on each side when the
\* kinds are bold and italic
WrappedInOrder(leaves, md) ==
    Len(leaves) = 1 =>
        /\ md = WrappedUpTo(leaves[1].text, KindsOf(leaves[1].marks), Len(WrapOrder))
        /\ KindsOf(leaves[1].marks) = {"strong", "em"} =>
               md = <<"*", "*", "*">> \o leaves[1].text \o <<"*", "*", "*">>

\* C20: a text leaf with marks of distinct kinds is serialized with the text
\* wrapped from inline code, the innermost, to link, the outermost, in one
\* fixed order, so the markup depends on the set of the kinds and not on the
\* order of the marks array; bold with italic gives three asterisks on each
\* side
C20_MarkOrder ==
    (input.class = "marks" /\ Len(hist) >= 1) =>
        /\ ~hist[1].err /\ ~hist[1].panic
        /\ WrappedInOrder(LeavesOfOne(Unmarshal(input.raw).doc.content), hist[1].md)

\* a text leaf whose marks array lists italic before bold has been serialized
\* with three asterisks on each side
C20_Witness ==
    /\ input.raw = MarkedDoc(<<"em", "strong">>)
    /\ Len(hist) >= 1
    /\ hist[1].md = <<"*", "*", "*", "x", "*", "*", "*">>

\* the first match of the k-th recognizer of the list in the text, the
\* recognizers that match and the smallest offset at which one of them does
FirstMatch(k, text) == ReFind(patterns[k].regex, text)
Matching(text) == {k \in DOMAIN patterns : FirstMatch(k, text).ok}
SmallestOffset(text) ==
    CHOOSE o \in {FirstMatch(k, text).from : k \in Matching(text)} :
        \A k \in Matching(text) : o <= FirstMatch(k, text).from
AtSmallestOffset(text) ==
    {k \in Matching(text) : FirstMatch(k, text).from = SmallestOffset(text)}
EarliestListed(ks) == CHOOSE k \in ks : \A j \in ks : k <= j

\* the iteration has gone to the k-th recognizer: its first match is the last
\* span taken, the node of that match is the last node and the text after the
\* match is what remains
WentTo(k, text, after) ==
    /\ after.spans # <<>> /\ after.nodes # <<>>
    /\ after.spans[Len(after.spans)] =
          Slice(text, FirstMatch(k, text).from, FirstMatch(k, text).to)
    /\ after.nodes[Len(after.nodes)] = InlineNode(patterns[k], text, FirstMatch(k, text))
    /\ after.remaining = Slice(text, FirstMatch(k, text).to, Len(text) + 1)
    /\ after.pc = "loop"

WentToNone(text, after) ==
    /\ after.nodes # <<>>
    /\ after.nodes[Len(after.nodes)] = TextNode(text, <<>>)
    /\ after.pc = "done"

\* C21: every iteration of the tokenizer goes to the recognizer whose first
\* match starts at the smallest offset in the remaining text, the earliest in
\* the list among those that match at that offset, and to none when none
\* matches
C21_EarliestWins ==
    [][(inline.pc = "loop" /\ inline.remaining # <<>>) =>
          IF Matching(inline.remaining) = {}
          THEN WentToNone(inline.remaining, inline')
          ELSE WentTo(EarliestListed(AtSmallestOffset(inline.remaining)),
                      inline.remaining, inline')]_vars

\* the italic recognizer, listed after the bold one, has taken the start of a
\* text in which both match, the bold one further on
C21_Witness ==
    /\ inline.text = <<"_", "i", "_", "*", "*", "b", "*", "*">>
    /\ FirstMatch(12, inline.text).ok /\ FirstMatch(15, inline.text).ok
    /\ FirstMatch(15, inline.text).from < FirstMatch(12, inline.text).from
    /\ Len(inline.nodes) = 1
    /\ inline.nodes[1] = TextNode(<<"i">>, <<ADFMark("em", NilAttrs)>>)

\* a child of the table that is a row with at least one cell, and one that
\* holds a header cell
IsFullRow(row) == row.type = "tableRow" /\ Len(row.content) > 0
HoldsHeaderCell(row) ==
    /\ row.type = "tableRow"
    /\ \E c \in 1..Len(row.content) : row.content[c].type = "tableHeader"

\* the first row with a header cell, 0 when there is none
HeaderIndex(rows) ==
    IF \E k \in 1..Len(rows) : HoldsHeaderCell(rows[k])
    THEN CHOOSE k \in 1..Len(rows) :
            /\ HoldsHeaderCell(rows[k])
            /\ \A m \in 1..(k - 1) : ~HoldsHeaderCell(rows[m])
    ELSE 0

\* the line of a row: the trimmed markup of each cell with spaces for newlines,
\* between pipes
OnOneLine(text) == [k \in 1..Len(text) |-> IF text[k] = NL THEN " " ELSE text[k]]
RowLine(row) ==
    <<"|", " ">>
    \o Join([c \in 1..Len(row.content) |->
                OnOneLine(TrimSpace(MarkupInOrder(row.content[c].content)))],
            <<" ", "|", " ">>)
    \o <<" ", "|">>
SeparatorLine(row) == <<"|">> \o Repeat(<<" ", "-", "-", "-", " ", "|">>, Len(row.content))

\* the lines of the rows from the k-th on that are not the h-th
RECURSIVE DataLines(_, _, _)
DataLines(rows, h, k) ==
    IF k > Len(rows) THEN <<>>
    ELSE (IF k # h /\ IsFullRow(rows[k]) THEN <<RowLine(rows[k])>> ELSE <<>>)
         \o DataLines(rows, h, k + 1)

TableLinesOf(rows, h) ==
    (IF h > 0 THEN <<RowLine(rows[h]), SeparatorLine(rows[h])>> ELSE <<>>)
    \o DataLines(rows, h, 1)

\* the markup is the lines one per row, and empty when there is no line
IsLines(md, ls) == IF ls = <<>> THEN md = <<>> ELSE Split(md, <<NL>>) = ls

TableOf(content) == IF Len(content) = 1 THEN content[1] ELSE ADFNode("", NilAttrs, <<>>)

\* C22: a table is serialized one line per row: the first row that holds a
\* header cell as the first line, then a separator line with one --- per cell
\* of that row, then every other row that has a cell, in tree order; no line
\* of a row is broken, the newlines of the content of a cell being spaces
C22_TableLines ==
    (input.class = "tables" /\ Len(hist) >= 1) =>
        /\ ~hist[1].err /\ ~hist[1].panic
        /\ IsLines(hist[1].md,
                   TableLinesOf(TableOf(Unmarshal(input.raw).doc.content).content,
                                HeaderIndex(TableOf(Unmarshal(input.raw).doc.content).content)))

\* a table whose second row holds the header cells, one of them with a hard
\* break in its text, has been serialized with that row first on one line
C22_Witness ==
    /\ input.class = "tables"
    /\ Len(hist) >= 1
    /\ hist[1].md = <<"|", " ", "c", " ", "|", " ", "a", " ", " ", " ", "b", " ", "|", " ", " ", "|", NL,
                      "|", " ", "-", "-", "-", " ", "|", " ", "-", "-", "-", " ", "|", " ", "-", "-", "-", " ", "|", NL,
                      "|", " ", "c", " ", "|", " ", "d", " ", "|">>

\* a line that starts with a pipe, leading whitespace apart, and the end of
\* the run of such lines that starts at line j
IsPipeLine(line) == HasPrefix(TrimSpace(line), <<"|">>)
RunEnd(ls, j) ==
    CHOOSE e \in j..(Len(ls) + 1) :
        /\ \A k \in j..(e - 1) : IsPipeLine(ls[k])
        /\ e <= Len(ls) => ~IsPipeLine(ls[e])

\* the fields of a line: the texts between its pipes and the text after the
\* last pipe when there is one, trimmed
WithoutEmptyLast(ps) ==
    IF ps # <<>> /\ ps[Len(ps)] = <<>> THEN SubSeq(ps, 1, Len(ps) - 1) ELSE ps
Between(ps) == WithoutEmptyLast(Tail(ps))
FieldsOf(line) ==
    [k \in DOMAIN Between(Split(TrimSpace(line), <<"|">>)) |->
        TrimSpace(Between(Split(TrimSpace(line), <<"|">>))[k])]

\* a line whose fields hold only dashes, colons and whitespace
IsSeparatorLine(line) ==
    \A k \in DOMAIN FieldsOf(line) :
        \A c \in DOMAIN FieldsOf(line)[k] : FieldsOf(line)[k][c] \in ClsSpace \cup {"-", ":"}

\* the lines from j to e - 1 that are no separators
RECURSIVE RowLines(_, _, _)
RowLines(ls, j, e) ==
    IF j >= e THEN <<>>
    ELSE (IF IsSeparatorLine(ls[j]) THEN <<>> ELSE <<ls[j]>>) \o RowLines(ls, j + 1, e)

\* the table of the row lines: header cells in the first row, data cells in
\* the others, one cell per field
RowOfFields(kind, fields) ==
    ADFNode("tableRow", NilAttrs,
            [k \in DOMAIN fields |->
                ADFNode(kind, NilAttrs,
                        <<ADFNode("paragraph", NilAttrs, parseInlineContent(fields[k]))>>)])
TableOfLines(rowLines) ==
    ADFNode("table", NilAttrs,
            [k \in DOMAIN rowLines |->
                RowOfFields(IF k = 1 THEN "tableHeader" ELSE "tableCell", FieldsOf(rowLines[k]))])

\* the iteration at a run of pipe lines with a row among them has taken the
\* whole run and appended its table
TookTable(ls, j, after, content) ==
    /\ after = RunEnd(ls, j)
    /\ content # <<>>
    /\ content[Len(content)] = TableOfLines(RowLines(ls, j, RunEnd(ls, j)))

\* C23: the table parse takes the whole run of contiguous pipe lines, drops
\* every line whose fields hold only dashes, colons and whitespace, and makes
\* of the first line left a row of header cells and of every later one a row
\* of data cells, one cell per field of the line
C23_TableRows ==
    [][(/\ pc = "parsing" /\ i <= Len(lines)
        /\ IsPipeLine(lines[i])
        /\ RowLines(lines, i, RunEnd(lines, i)) # <<>>) =>
          TookTable(lines, i, i', doc'.content)]_vars

\* the first line after line j that starts with a fence, Len(ls) + 1 when
\* there is none
IsFenceLine(line) == HasPrefix(line, <<BQ, BQ, BQ>>)
FenceAfter(ls, j) ==
    CHOOSE e \in (j + 1)..(Len(ls) + 1) :
        /\ \A k \in (j + 1)..(e - 1) : ~IsFenceLine(ls[k])
        /\ e <= Len(ls) => IsFenceLine(ls[e])

\* the lines a to b as they are, with a newline between two of them
RECURSIVE Verbatim(_, _, _)
Verbatim(ls, a, b) ==
    IF a > b THEN <<>>
    ELSE IF a = b THEN ls[a]
    ELSE ls[a] \o <<NL>> \o Verbatim(ls, a + 1, b)

\* the node is a code block that holds the text as one leaf without marks
HoldsCode(node, text) ==
    /\ node.type = "codeBlock"
    /\ Len(node.content) = 1
    /\ node.content[1].type = "text"
    /\ node.content[1].text = text
    /\ node.content[1].marks = <<>>

\* the iteration at the opening fence at line j, whose block ends at line e,
\* has appended the block and stands after the closing fence, or after the
\* last line when there is no closing fence
TookCode(ls, j, e, after, content) ==
    /\ after = IF e <= Len(ls) THEN e + 1 ELSE Len(ls) + 1
    /\ content # <<>>
    /\ HoldsCode(content[Len(content)], Verbatim(ls, j + 1, e - 1))

\* C24: at an opening fence the code block takes the lines up to the next
\* fence line as they are, joined by newlines, as one unmarked text; with a
\* closing fence the cursor moves past it, without one it moves to the end of
\* the input and no further, and the parse goes on without an error
C24_FencedCode ==
    [][(pc = "parsing" /\ i <= Len(lines) /\ IsFenceLine(lines[i])) =>
          /\ pc' = "parsing"
          /\ i' <= Len(lines) + 1
          /\ TookCode(lines, i, FenceAfter(lines, i), i', doc'.content)]_vars

\* a block that is never closed has been taken up to the last line of the
\* input, markup and blank line included
C24_Witness ==
    /\ input.class = "fenced"
    /\ pc = "parsing"
    /\ Len(lines) = 4 /\ i = 5
    /\ Len(doc.content) = 1
    /\ HoldsCode(doc.content[1],
                 <<"#", " ", "h", NL, NL, "|", " ", "a", " ", "|">>)

\* the number of times the character stands in s from position a to b
Count(s, a, b, ch) == Cardinality({p \in a..b : s[p] = ch})

\* the parenthesis that balances the one before position a: the first position
\* up to which the closing ones outnumber the opening ones, 0 when there is none
Balancing(s, a) ==
    IF \E p \in a..Len(s) : Count(s, a, p, ")") > Count(s, a, p, "(")
    THEN CHOOSE p \in a..Len(s) :
            /\ Count(s, a, p, ")") > Count(s, a, p, "(")
            /\ \A q \in a..(p - 1) : Count(s, a, q, ")") <= Count(s, a, q, "(")
    ELSE 0

\* the position of the [ of a list item: after the dash and one or more
\* spaces, 0 when the line is no such item
BracketOfItem(t) ==
    IF /\ Len(t) >= 3 /\ t[1] = "-" /\ t[2] = " "
       /\ 2 + RunLen(t, 2, {" "}) <= Len(t)
       /\ t[2 + RunLen(t, 2, {" "})] = "["
    THEN 2 + RunLen(t, 2, {" "})
    ELSE 0

\* the ] that ends the name, when "(" follows it
EndOfName(t, open) ==
    IF open > 0 /\ \E p \in (open + 1)..Len(t) : t[p] = "]"
    THEN CHOOSE p \in (open + 1)..Len(t) :
            t[p] = "]" /\ \A q \in (open + 1)..(p - 1) : t[q] # "]"
    ELSE 0

\* what the trimmed line is to add: the name and the url of the item
\* - [name](url) when the url is closed and not empty, nothing otherwise
ItemWith(t, open, close) ==
    IF /\ close > 0 /\ close < Len(t) /\ t[close + 1] = "("
       /\ Balancing(t, close + 2) > close + 2
    THEN <<[Filename |-> Slice(t, open + 1, close),
            URL |-> Slice(t, close + 2, Balancing(t, close + 2))]>>
    ELSE <<>>
ItemOfTrimmed(t) == ItemWith(t, BracketOfItem(t), EndOfName(t, BracketOfItem(t)))
ItemOf(line) == ItemOfTrimmed(TrimSpace(line))

\* C25: every line of the section that is a list item - [name](url), with
\* one or more spaces after the dash, a url that is not empty and a closing
\* parenthesis that balances the opening one, adds one attachment with that
\* name and that url after those of the lines before it; every other line
\* adds nothing
C25_AttachmentPerItem ==
    [][(att.pc = "loop" /\ att.k <= Len(att.lines)) =>
          att'.Attachments = att.Attachments \o ItemOf(att.lines[att.k])]_vars

\* C26: the issue that ReadIssue returns for a file that SaveIssue wrote has
\* the hash that is stored in the file, whatever its description and comments
\* hold, and Push skips it
C26_HashStable ==
    /\ store.pc = "read" => ComputeHash(store.read) = store.issue.Hash
    /\ store.pc # "changed"

\* the issues that are in the project in Jira and not archived
InJira == {pull.jira[k].key : k \in {m \in 1..Len(pull.jira) : ~pull.jira[m].archived}}

\* C27: Pull deletes the local file of an issue only when the issue is no
\* longer in Jira or is archived there: an issue that is in the project and not
\* archived keeps its file, however many issues the project holds
C27_PullKeepsLive ==
    [][\A key \in pull.files \ pull'.files : key \notin InJira]_vars

\* C28: when the save fails inside RegisterAndSave or UnregisterAndSave the
\* call returns an error and the projects in memory are those of before the
\* call, each with its former data
C28_AllOrNothing ==
    [][reg'.err = "persist failed" => reg'.Projects = reg.Projects]_vars

\* the call of Start of p returns in this step because a daemon is running
FailsAsRunning(p) ==
    /\ daemon.procs[p].pc # "failed"
    /\ daemon'.procs[p].pc = "failed"
    /\ daemon'.procs[p].err = "daemon already running"

\* C29: whatever the interleaving of the processes that call Start, at most
\* one of them serves, and a call that fails because a daemon is running has
\* not removed or replaced the socket file of the serving daemon, which is
\* bound to the socket path and answers there after the failure
C29_ExclusiveStart ==
    /\ [](Cardinality(Serving(daemon)) <= 1)
    /\ [][\A p \in Procs : FailsAsRunning(p) =>
             /\ ~daemon'.procs[p].took
             /\ \A q \in Serving(daemon) : daemon'.socket = {q}]_vars

\* the line opens a panel or an expand
IsContainerLine(line) == HasPrefix(line, PanelPrefix) \/ HasPrefix(line, DetailsPrefix)

\* the closing tag of the container that the line opens
ClosingTag(line) == IF HasPrefix(line, PanelPrefix) THEN PanelClose ELSE DetailsClose

\* the line of the closing tag of the container opened at line j, when no
\* container is opened inside it; Len(ls) + 1 when it is not closed
OwnClose(ls, j) == FirstWithPrefix(ls, j + 1, ClosingTag(ls[j]))

OpensNoneInside(ls, j) == \A k \in (j + 1)..(OwnClose(ls, j) - 1) : ~IsContainerLine(ls[k])

\* C30: the sub-parse of a panel or of an expand that is closed and followed by
\* more lines takes no line after its closing tag: the cursor stands at the
\* line after the tag, so that every line after it is dispatched as a later
\* block of the Document, with or without a summary line in the expand
C30_EndsAtClosingTag ==
    [][(/\ pc = "parsing" /\ i <= Len(lines)
        /\ IsContainerLine(lines[i])
        /\ OwnClose(lines, i) < Len(lines)
        /\ OpensNoneInside(lines, i)
        /\ pc' = "parsing") => i' = OwnClose(lines, i) + 1]_vars

=============================================================================
